---- MODULE Spec2Model ----
(***************************************************************************)
(* Model of the tool routing engine and of the Kubernetes managers of      *)
(* micro-adk-framework.                                                    *)
(*                                                                         *)
(* ToolRouter (src/micro_adk/router/tool_router.py): the endpoint table,   *)
(* invoke with its tenacity retry loop, invoke_batch (asyncio.gather).     *)
(* One caller issues invoke or invoke_batch; the coroutines of a batch     *)
(* interleave at their await points (the POST, the backoff sleep).  The    *)
(* tool server is the environment: it answers every POST with one of       *)
(* Replies.                                                                *)
(*                                                                         *)
(* A second caller may close the router or probe a tool's health while an  *)
(* invoke is in flight (SpecShared); a clock measures the age of the       *)
(* registrations (SpecTtl).                                                *)
(*                                                                         *)
(* DeploymentManager (src/micro_adk/orchestrator/deployment_manager.py)    *)
(* and AutoscalerManager (src/micro_adk/orchestrator/autoscaler.py) talk   *)
(* to the Kubernetes control plane, which is the environment: it keeps the *)
(* deployments, services and HPAs by name, answers 409 on a create of an   *)
(* existing object and 404 on a missing one, may fail any call, and its    *)
(* controllers move the observed status of a deployment towards its spec   *)
(* (SpecDeploy, SpecHpa).                                                  *)
(*                                                                         *)
(* Times are in tenths of a second.  Optional values are sequences: <<>>   *)
(* is None, <<v>> is the value v.                                          *)
(***************************************************************************)
EXTENDS Integers, Sequences, FiniteSets, TLC

\* ---- bounds ------------------------------------------------------------
MaxRetries == 3          \* largest configured max_retries
MaxBatch == 2            \* largest number of requests in one invoke_batch
BatchRetries == 2        \* max_retries of the router that serves batches
BreakerThreshold == 2    \* configured circuit_breaker_threshold
MaxClosers == 2          \* close() calls suspended in aclose() at a time
MaxTicks == 3            \* half TTLs the clock runs for
MaxReplicas == 2         \* largest replica count of a spec or a scale

\* ---- inputs ------------------------------------------------------------
Tools == {"calc", "weather"}

\* service URLs a caller registers for a tool, with and without trailing "/"
UrlsOf(t) == {"http://" \o t \o ":8080", "http://" \o t \o ":8080/"}

\* tenths of a second in a second
Second == 10

\* retry_min_wait / retry_max_wait values (0.1 s and 10.0 s are the defaults)
MinWaits == {1, 3 * Second}
MaxWaits == {15, 10 * Second}

Slots == 1..MaxBatch

MaxOf(a, b) == IF a >= b THEN a ELSE b
MinOf(a, b) == IF a <= b THEN a ELSE b

RECURSIVE Pow2(_)
Pow2(n) == IF n <= 0 THEN 1 ELSE 2 * Pow2(n - 1)

\* ---- configuration -----------------------------------------------------
\* ToolRoutingConfig: the fields the router reads, and the breaker fields
ConfigOf(mr, mn, mx, cb) ==
    [max_retries |-> mr, retry_min_wait |-> mn, retry_max_wait |-> mx,
     circuit_breaker_enabled |-> cb,
     circuit_breaker_threshold |-> BreakerThreshold]

Configs == {ConfigOf(mr, mn, mx, cb) :
               mr \in 0..MaxRetries, mn \in MinWaits, mx \in MaxWaits,
               cb \in BOOLEAN}

\* ---- what the tool server answers to one POST ----------------------------
\* kind "ConnectError": httpx.ConnectError, the request never reached the tool
\* kind "Timeout": httpx.ReadTimeout (a TimeoutException): the request was
\*                 delivered and the tool processed it, the response did not
\*                 arrive in time; the exception has no message, its str is ""
\* kind "Response": an HTTP response with a status and a body; parses says
\*                 whether the body is JSON that fits ToolInvokeResponse
ReplyOf(k, st, tx, ps, res, err) ==
    [kind |-> k, status |-> st, text |-> tx, parses |-> ps,
     result |-> res, error |-> err]

ConnectErrorReply ==
    ReplyOf("ConnectError", 0, "All connection attempts failed", FALSE, <<>>, <<>>)
TimeoutReply == ReplyOf("Timeout", 0, "", FALSE, <<>>, <<>>)
ServerErrorReply == ReplyOf("Response", 500, "worker crashed", FALSE, <<>>, <<>>)
ClientErrorReply ==
    ReplyOf("Response", 404, "{detail: Unknown operation}", FALSE, <<>>, <<>>)
OkReply == ReplyOf("Response", 200, "{result: 3.0}", TRUE, <<"3.0">>, <<>>)
AppErrorReply ==
    ReplyOf("Response", 200, "{error: Division by zero}", TRUE, <<>>,
            <<"Division by zero">>)
BadBodyReply == ReplyOf("Response", 200, "<html>", FALSE, <<>>, <<>>)

Replies == {ConnectErrorReply, TimeoutReply, ServerErrorReply,
            ClientErrorReply, OkReply, AppErrorReply, BadBodyReply}

\* kind "ReadError": httpx.ReadError, the connection of the POST was closed
\*                   under it (AsyncClient.aclose() while it was in flight)
ClosedReply == ReplyOf("ReadError", 0, "", FALSE, <<>>, <<>>)

\* ---- ToolInvokeResponse --------------------------------------------------
ToolInvokeResponse(res, err) == [result |-> res, error |-> err]

NoResponse == ToolInvokeResponse(<<>>, <<>>)

\* ---- state ---------------------------------------------------------------
VARIABLES
    config,        \* ToolRouter.config
    service_urls,  \* ToolRouter._service_urls: tool_id -> <<>> or <<url>>
    client,        \* ToolRouter._client is not None
    calls,         \* the invoke coroutines of the current caller operation
    batch,         \* the caller's operation: invoke or invoke_batch
    consec,        \* per tool: consecutive transient failures on the wire
    closing,       \* the close() calls suspended in `await self._client.aclose()`
    closed,        \* aclose() was called on the client self._client refers to
    on_client,     \* slots whose POST is in flight on the client of self._client
    severed,       \* slots whose POST was in flight when its client was closed
    now,           \* the clock
    registered_at, \* per tool: the clock at its last register_service
    dm_initialized,  \* DeploymentManager._initialized
    hpa_initialized, \* AutoscalerManager._initialized
    deployments,   \* control plane: name -> <<>> or <<deployment>>
    services,      \* control plane: name -> <<>> or <<service>>
    hpas,          \* control plane: name -> <<>> or <<hpa>>
    op,            \* the manager operation in progress and its outcome
    requested,     \* name -> the replica count last requested with success
    registry,      \* ToolRegistry._tool_entries: tool_id -> descriptor
    deployed_tools, \* KubernetesOrchestrator._deployed_tools, in insertion order
    orch,          \* the orchestrator operation in progress and its outcome
    named,         \* two tool_ids and the resource names derived from them
    discovery,     \* a ServiceDiscovery, its name service and its operation
    other          \* the manager operation of a second caller, while suspended

routerVars == <<config, service_urls, client, calls, batch, consec>>
sharedVars == <<closing, closed, on_client, severed>>
clockVars == <<now, registered_at>>
clusterVars == <<deployments, services, hpas>>
managerVars == <<dm_initialized, hpa_initialized, op, requested>>
orchVars == <<registry, deployed_tools, orch>>
sideVars == <<named, discovery, other>>
restVars == <<orchVars, sideVars>>

vars == <<routerVars, sharedVars, clockVars, clusterVars, managerVars, restVars>>

\* an invoke coroutine
\*   pc       "free"     no coroutine in this slot
\*            "awaiting" a POST is in flight
\*            "sleeping" in the backoff sleep between two attempts
\*            "returned" returned response
\*            "raised"   raised exc
\*   attempts number of POSTs sent (tenacity's attempt_number)
\*   history  the replies of the server to those POSTs
\*   wait     the length of the current or last backoff sleep
FreeCall ==
    [pc |-> "free", tool |-> "calc", url |-> "", attempts |-> 0,
     history |-> <<>>, wait |-> 0, response |-> NoResponse, exc |-> "None"]

IdleBatch == [kind |-> "idle", n |-> 0, status |-> "idle", exc |-> "None",
              result |-> <<>>]

Finished(c) == c.pc \in {"returned", "raised"}

\* ---- ToolRouter.register_service -----------------------------------------
RECURSIVE RStripSlash(_)
RStripSlash(s) ==
    IF Len(s) > 0 /\ SubSeq(s, Len(s), Len(s)) = "/"
    THEN RStripSlash(SubSeq(s, 1, Len(s) - 1))
    ELSE s

register_service(t, u) ==
    /\ service_urls' = [service_urls EXCEPT ![t] = <<RStripSlash(u)>>]
    /\ registered_at' = [registered_at EXCEPT ![t] = now]
    /\ UNCHANGED <<config, client, calls, batch, consec>>
    /\ UNCHANGED <<sharedVars, now, clusterVars, managerVars, restVars>>

\* ---- the retry policy of _invoke_with_retry (tenacity) --------------------
\* a retry predicate on the base class httpx.HTTPError
RetryIfHTTPError(exc) ==
    exc \in {"ConnectError", "TimeoutException", "HTTPStatusError", "ReadError"}

\* retry=retry_if_exception_type((httpx.ConnectError, httpx.TimeoutException))
RetryIfException(exc) == exc \in {"ConnectError", "TimeoutException"}

\* slips of the stop condition: one attempt too few, one attempt too many
StopAfterAttemptEarly(attempt, max_attempt) == attempt + 1 >= max_attempt
StopAfterAttemptLate(attempt, max_attempt) == attempt > max_attempt

\* stop=stop_after_attempt(max_retries): stop once attempt_number >= max_retries
StopAfterAttempt(attempt, max_attempt) == attempt >= max_attempt

\* a backoff that starts at retry_min_wait and doubles up to retry_max_wait
WaitExponentialFromMin(attempt, mn, mx) == MinOf(mx, mn * Pow2(attempt - 1))

\* wait=wait_exponential(min=retry_min_wait, max=retry_max_wait), with
\* tenacity's defaults multiplier = 1 (second) and exp_base = 2:
\*   max(max(0, min), min(multiplier * 2 ** (attempt_number - 1), max))
WaitExponential(attempt, mn, mx) ==
    LET exp == Pow2(attempt - 1)
        result == Second * exp
    IN  MaxOf(MaxOf(0, mn), MinOf(result, mx))

\* httpx.HTTPError is the base of ConnectError, TimeoutException, ReadError
\* and HTTPStatusError; json.JSONDecodeError, pydantic's ValidationError and
\* the RuntimeError of a closed client are not
IsHTTPError(exc) ==
    exc \in {"ConnectError", "TimeoutException", "HTTPStatusError", "ReadError"}

\* the reason phrase of a status line
Reason(status) == IF status >= 500 THEN "Internal Server Error" ELSE "Not Found"

\* str(e) of the exception raised for reply r to the POST to url;
\* raise_for_status() names the status line, the url of the request and the
\* page that documents the status, not the body
StrExc(exc, r, url) ==
    IF exc = "HTTPStatusError"
    THEN (IF r.status >= 500 THEN "Server error '" ELSE "Client error '")
         \o ToString(r.status) \o " " \o Reason(r.status) \o "'"
         \o " for url '" \o url \o "'"
         \o "\nFor more information check: "
         \o "https://developer.mozilla.org/en-US/docs/Web/HTTP/Status/"
         \o ToString(r.status)
    ELSE r.text

\* a _do_invoke that calls raise_for_status() for every status >= 400
DoInvokeRaiseForStatus(r) ==
    IF r.kind = "ConnectError" THEN [exc |-> "ConnectError", response |-> NoResponse]
    ELSE IF r.kind = "Timeout" THEN [exc |-> "TimeoutException", response |-> NoResponse]
    ELSE IF r.kind = "ReadError" THEN [exc |-> "ReadError", response |-> NoResponse]
    ELSE IF r.status >= 400
         THEN [exc |-> "HTTPStatusError", response |-> NoResponse]
    ELSE IF ~r.parses
         THEN [exc |-> "JSONDecodeError", response |-> NoResponse]
    ELSE [exc |-> "None", response |-> ToolInvokeResponse(r.result, r.error)]

\* one run of _do_invoke against reply r: the exception it raises ("None" when
\* it returns) and the response it returns
DoInvoke(r) ==
    IF r.kind = "ConnectError" THEN [exc |-> "ConnectError", response |-> NoResponse]
    ELSE IF r.kind = "Timeout" THEN [exc |-> "TimeoutException", response |-> NoResponse]
    ELSE IF r.kind = "ReadError" THEN [exc |-> "ReadError", response |-> NoResponse]
    ELSE IF r.status >= 500
         THEN [exc |-> "HTTPStatusError", response |-> NoResponse]
    ELSE IF r.status >= 400
         THEN [exc |-> "None",
               response |-> ToolInvokeResponse(<<>>,
                   <<"Tool error: " \o ToString(r.status) \o " - " \o r.text>>)]
    ELSE IF ~r.parses
         THEN [exc |-> "JSONDecodeError", response |-> NoResponse]
    ELSE [exc |-> "None", response |-> ToolInvokeResponse(r.result, r.error)]

\* the coroutine c after reply r to its POST: tenacity retries, or the
\* exception is reraised into the try/except of _invoke_with_retry
HandleReply(c, r) ==
    LET out == DoInvoke(r)
        h == Append(c.history, r)
    IN  IF out.exc = "None"
        THEN [c EXCEPT !.pc = "returned", !.history = h,
                       !.response = out.response]
        ELSE IF RetryIfException(out.exc)
                /\ ~StopAfterAttempt(c.attempts, config.max_retries)
        THEN [c EXCEPT !.pc = "sleeping", !.history = h,
                       !.wait = WaitExponential(c.attempts,
                                    config.retry_min_wait, config.retry_max_wait)]
        ELSE IF IsHTTPError(out.exc)
        THEN [c EXCEPT !.pc = "returned", !.history = h,
                       !.response = ToolInvokeResponse(<<>>, <<StrExc(out.exc, r, c.url)>>)]
        ELSE [c EXCEPT !.pc = "raised", !.history = h, !.exc = out.exc]

\* ---- ToolRouter.invoke up to its first POST --------------------------------
\* self._service_urls.get(tool_id)
ServiceUrlGet(urls, t) == urls[t]

\* truth value of an Optional[str]: None and "" are false
Truthy(opt) == opt # <<>> /\ opt[1] # ""

\* _get_client() hands out self._client whenever it is not None, also the
\* client a close() has closed and not yet dropped: a POST on that closed
\* client raises RuntimeError, which is neither retried nor caught
StartCall(t) ==
    LET service_url == ServiceUrlGet(service_urls, t)
    IN  IF ~Truthy(service_url)
        THEN [FreeCall EXCEPT !.pc = "raised", !.tool = t, !.exc = "ValueError"]
        ELSE IF closed
        THEN [FreeCall EXCEPT !.pc = "raised", !.tool = t,
                              !.url = service_url[1] \o "/invoke",
                              !.attempts = 1, !.exc = "RuntimeError"]
        ELSE [FreeCall EXCEPT !.pc = "awaiting", !.tool = t,
                              !.url = service_url[1] \o "/invoke",
                              !.attempts = 1]

\* ---- what the caller of invoke / invoke_batch gets --------------------------
\* invoke: the coroutine's own outcome.  invoke_batch:
\* asyncio.gather(*tasks, return_exceptions=False) raises the first exception
\* of a task as soon as it is raised, and returns the list of all results, in
\* the order of the tasks, once every task has returned
Join(b, cs) ==
    IF b.status # "running" THEN b
    ELSE IF \E i \in 1..b.n : cs[i].pc = "raised"
    THEN [b EXCEPT !.status = "raised",
                   !.exc = cs[CHOOSE i \in 1..b.n : cs[i].pc = "raised"].exc]
    ELSE IF \A i \in 1..b.n : cs[i].pc = "returned"
    THEN [b EXCEPT !.status = "returned",
                   !.result = [i \in 1..b.n |-> cs[i].response]]
    ELSE b

\* transient on the wire: connection failure, timeout, 5xx response
WireTransient(r) == r.kind \in {"ConnectError", "Timeout"} \/ r.status >= 500

\* ---- actions -------------------------------------------------------------
Register == \E t \in Tools : \E u \in UrlsOf(t) : register_service(t, u)

\* the slots whose coroutine has sent a POST with this step
Posting(cs) == {i \in Slots : cs[i].pc = "awaiting" /\ calls[i].pc # "awaiting"}

\* await router.invoke(t, args): runs up to the first POST
Invoke ==
    \E t \in Tools :
        /\ batch.kind = "idle"
        /\ LET cs == [calls EXCEPT ![1] = StartCall(t)]
           IN  /\ calls' = cs
               /\ client' = (client \/ cs[1].pc = "awaiting")
               /\ on_client' = on_client \cup Posting(cs)
               /\ batch' = Join([IdleBatch EXCEPT !.kind = "invoke", !.n = 1,
                                                  !.status = "running"], cs)
        /\ UNCHANGED <<config, service_urls, consec>>
        /\ UNCHANGED <<closing, closed, severed>>
        /\ UNCHANGED <<clockVars, clusterVars, managerVars, restVars>>

\* await router.invoke_batch(reqs): gather starts every coroutine, in order
InvokeBatch ==
    \E n \in 1..MaxBatch : \E reqs \in [1..n -> Tools] :
        /\ batch.kind = "idle"
        /\ LET cs == [i \in Slots |-> IF i <= n THEN StartCall(reqs[i])
                                               ELSE FreeCall]
           IN  /\ calls' = cs
               /\ client' = (client \/ \E i \in 1..n : cs[i].pc = "awaiting")
               /\ on_client' = on_client \cup Posting(cs)
               /\ batch' = Join([IdleBatch EXCEPT !.kind = "batch", !.n = n,
                                                  !.status = "running"], cs)
        /\ UNCHANGED <<config, service_urls, consec>>
        /\ UNCHANGED <<closing, closed, severed>>
        /\ UNCHANGED <<clockVars, clusterVars, managerVars, restVars>>

\* the outcomes of the POST of coroutine i: an answer of the tool server, or,
\* once its client was closed under it, the failure of its connection
RepliesTo(i) == Replies \cup (IF i \in severed THEN {ClosedReply} ELSE {})

\* the reply to the POST of coroutine i arrives
Reply ==
    \E i \in Slots : \E r \in RepliesTo(i) :
        /\ calls[i].pc = "awaiting"
        /\ LET cs == [calls EXCEPT ![i] = HandleReply(calls[i], r)]
           IN  /\ calls' = cs
               /\ batch' = Join(batch, cs)
        /\ consec' = [consec EXCEPT ![calls[i].tool] =
                         IF WireTransient(r)
                         THEN MinOf(@ + 1, config.circuit_breaker_threshold)
                         ELSE 0]
        /\ severed' = severed \ {i}
        /\ on_client' = on_client \ {i}
        /\ UNCHANGED <<config, service_urls, client>>
        /\ UNCHANGED <<closing, closed, clockVars, clusterVars, managerVars, restVars>>

\* the backoff sleep of coroutine i ends: _do_invoke runs again and POSTs
Wake ==
    \E i \in Slots :
        /\ calls[i].pc = "sleeping"
        /\ LET cs == [calls EXCEPT
                         ![i].pc = IF closed THEN "raised" ELSE "awaiting",
                         ![i].exc = IF closed THEN "RuntimeError" ELSE @,
                         ![i].attempts = @ + 1]
           IN  /\ calls' = cs
               /\ on_client' = on_client \cup Posting(cs)
               /\ batch' = Join(batch, cs)
        /\ client' = TRUE
        /\ UNCHANGED <<config, service_urls, consec>>
        /\ UNCHANGED <<closing, closed, severed>>
        /\ UNCHANGED <<clockVars, clusterVars, managerVars, restVars>>

\* the caller has its outcome and every coroutine has ended
Complete ==
    /\ batch.kind # "idle"
    /\ \A i \in Slots : calls[i].pc = "free" \/ Finished(calls[i])
    /\ calls' = [i \in Slots |-> FreeCall]
    /\ batch' = IdleBatch
    /\ UNCHANGED <<config, service_urls, client, consec>>
    /\ UNCHANGED <<sharedVars, clockVars, clusterVars, managerVars, restVars>>

\* ---- ToolRouter.close and ToolRouter.health_check, by other callers ---------
\* close() up to its await, the client being open: AsyncClient.aclose()
\* marks it closed and closes the connections of the POSTs in flight on it
CloseBegin ==
    /\ client /\ ~closed
    /\ closing < MaxClosers
    /\ closing' = closing + 1
    /\ closed' = TRUE
    /\ severed' = severed \cup on_client
    /\ UNCHANGED on_client
    /\ UNCHANGED <<routerVars, clockVars, clusterVars, managerVars, restVars>>

\* close() where self._client is a client already closed: aclose() returns
\* without giving way and close() goes on to self._client = None
CloseClosed ==
    /\ client /\ closed
    /\ client' = FALSE
    /\ closed' = FALSE
    /\ on_client' = {}
    /\ UNCHANGED <<config, service_urls, calls, batch, consec>>
    /\ UNCHANGED <<closing, severed, clockVars, clusterVars, managerVars, restVars>>

\* a suspended close() after its await: self._client = None, whatever
\* self._client is by then; a client made since is dropped as it is, open,
\* and the POSTs in flight on it go on
CloseEnd ==
    /\ closing > 0
    /\ closing' = closing - 1
    /\ client' = FALSE
    /\ closed' = FALSE
    /\ on_client' = {}
    /\ UNCHANGED <<config, service_urls, calls, batch, consec>>
    /\ UNCHANGED <<severed, clockVars, clusterVars, managerVars, restVars>>

\* health_check(t) of a registered tool: _get_client() creates the client when
\* there is none; the GET and its outcome (any exception is False) change
\* nothing in the router
HealthCheck ==
    \E t \in Tools :
        /\ Truthy(ServiceUrlGet(service_urls, t))
        /\ client' = TRUE
        /\ UNCHANGED <<config, service_urls, calls, batch, consec>>
        /\ UNCHANGED <<sharedVars, clockVars, clusterVars, managerVars, restVars>>

\* ---- the clock -------------------------------------------------------------
\* ServiceDiscovery._cache_ttl, in seconds
CacheTtl == 60

\* half a TTL passes
Tick ==
    /\ now < MaxTicks * ((CacheTtl * Second) \div 2)
    /\ now' = now + (CacheTtl * Second) \div 2
    /\ UNCHANGED <<routerVars, sharedVars, registered_at, clusterVars, managerVars, restVars>>

\* ---- the Kubernetes control plane -------------------------------------------
\* deployment and service names, as KubernetesOrchestrator derives them
Names == {"tool-calc", "tool-weather"}

\* what a call of the control plane can end in besides its answer: an
\* ApiException with another status than 404 and 409 (500), or an exception
\* that is no ApiException (the connection failed)
Faults == {"None", "ApiException", "ConnectionError"}

\* DeploymentSpec: the fields the properties speak about.  labels is a dict,
\* a function from its keys to their values; <<>> is the default {}
DeploymentSpec(n, r) == [name |-> n, replicas |-> r, labels |-> <<>>]

\* a spec with labels {"app": a}
Labelled(spec, a) == [spec EXCEPT !.labels = [app |-> a]]

\* dict.get(key, default)
DictGet(d, key, default) == IF key \in DOMAIN d THEN d[key] ELSE default

\* spec.labels.get("app", spec.name)
AppOf(spec) == DictGet(spec.labels, "app", spec.name)

DeploymentSpecs == {DeploymentSpec(n, r) : n \in Names, r \in 1..MaxReplicas}

\* DeploymentStatus
DeploymentStatus(n, rdy, av, des, err) ==
    [name |-> n, ready |-> rdy, available_replicas |-> av,
     desired_replicas |-> des, error |-> err]

\* a deployment on the control plane: spec.replicas, the labels of its
\* metadata and pod template, and the observed status.replicas and
\* status.available_replicas (None while zero)
NewDeployment(spec) ==
    [replicas |-> spec.replicas, labels |-> spec.labels,
     status_replicas |-> <<>>, available_replicas |-> <<>>]

\* patch_namespaced_deployment with the body built from spec: the patch merges
\* the body into the deployment d, so the labels of the body are set and the
\* deployment keeps the labels the body does not have
PatchDeployment(d, spec) ==
    [d EXCEPT !.replicas = spec.replicas, !.labels = spec.labels @@ @]

\* the service of a deployment: selector {"app": labels.get("app", name)}
ServiceOf(spec) == [app |-> AppOf(spec)]

\* a conflict handler that replaces the service by the spec's
ApplyServiceReplace(cur, spec) == <<ServiceOf(spec)>>

\* create_namespaced_service; 409 is passed over: an existing service stays
ApplyService(cur, spec) == IF cur = <<>> THEN <<ServiceOf(spec)>> ELSE cur

\* `x or 0`
OrZero(opt) == IF opt = <<>> THEN 0 ELSE opt[1]

\* a readiness granted as soon as the deployment could be read
ReadyWhenApplied(available, replicas) == TRUE

\* a readiness that asks for more available than observed replicas
ReadyOfStrict(available, replicas) == OrZero(available) > OrZero(replicas)

\* (status.available_replicas or 0) >= (status.replicas or 0)
ReadyOf(available, replicas) == OrZero(available) >= OrZero(replicas)

\* the DeploymentStatus built from a deployment d read from the control plane
StatusOfDeployment(n, d) ==
    DeploymentStatus(n, ReadyOf(d.available_replicas, d.status_replicas),
                     OrZero(d.available_replicas), OrZero(d.status_replicas),
                     <<>>)

\* the mock status of deploy: the spec's replicas, ready
MockDeployStatus(spec) ==
    DeploymentStatus(spec.name, TRUE, spec.replicas, spec.replicas, <<>>)

\* the mock status of get_status: one replica of one, ready, for any name
MockGetStatus(n) == DeploymentStatus(n, TRUE, 1, 1, <<>>)

\* the status deploy returns when anything raised: not ready, error = str(e)
ErrorStatus(n, e) == DeploymentStatus(n, FALSE, 0, 0, <<e>>)

\* get_status: `if e.status == 404: return None`
NotFound(n) == <<>>

\* DeploymentManager.get_status(n) when its control-plane call ends in f: the
\* exception it raises ("None" when it returns) and the Optional status
get_status(n, f) ==
    IF ~dm_initialized
    THEN [exc |-> "None", status |-> <<MockGetStatus(n)>>]
    ELSE IF f # "None" THEN [exc |-> f, status |-> <<>>]
    ELSE IF deployments[n] = <<>> THEN [exc |-> "None", status |-> NotFound(n)]
    ELSE [exc |-> "None",
          status |-> <<StatusOfDeployment(n, deployments[n][1])>>]

\* a handler of the 404 of delete that reports failure
AlreadyDeletedIsFailure(status) == status # 404

\* delete: `if e.status == 404: return True  # Already deleted`
AlreadyDeleted(status) == status = 404

\* ---- HPAs -------------------------------------------------------------------
MinReplicas == {1, 2}
MaxReplicaLimits == {3, 10}
CpuTargets == {50, 80}
MemoryTargets == {<<>>, <<70>>}

HPASpec(n, mn, mx, cpu, mem) ==
    [name |-> n, deployment_name |-> n, min_replicas |-> mn,
     max_replicas |-> mx, target_cpu_percent |-> cpu,
     target_memory_percent |-> mem]

HPASpecs == {HPASpec(n, mn, mx, cpu, mem) :
                n \in Names, mn \in MinReplicas, mx \in MaxReplicaLimits,
                cpu \in CpuTargets, mem \in MemoryTargets}

\* truth value of an Optional[int]: None and 0 are false
TruthyInt(opt) == opt # <<>> /\ opt[1] # 0

\* the V2HorizontalPodAutoscaler built from an HPASpec
HpaBody(spec) ==
    [scale_target |-> spec.deployment_name,
     min_replicas |-> spec.min_replicas,
     max_replicas |-> spec.max_replicas,
     metrics |-> <<[name |-> "cpu", average_utilization |-> spec.target_cpu_percent]>>
                 \o (IF TruthyInt(spec.target_memory_percent)
                     THEN <<[name |-> "memory",
                             average_utilization |-> spec.target_memory_percent[1]]>>
                     ELSE <<>>)]

\* a conflict handler that passes over the 409, as _create_service does
PatchHpaPassedOver(h, body) == h

\* patch_namespaced_horizontal_pod_autoscaler with the body of the create:
\* every field of the body is set, the metrics list is replaced as a whole
PatchHpa(h, body) ==
    [h EXCEPT !.scale_target = body.scale_target,
              !.min_replicas = body.min_replicas,
              !.max_replicas = body.max_replicas,
              !.metrics = body.metrics]

\* ---- a manager operation ------------------------------------------------------
\*   kind  "idle", "deploy", "get_status", "scale", "delete",
\*         "list_deployments", "create_or_update_hpa", "delete_hpa"
\*   pc    "idle"; "patch", "service", "status": deploy before its patch
\*         of the deployment that exists, before _create_service, before
\*         its get_status; "delete_service": delete before the service;
\*         "returned": returned ok / status / statuses; "raised": raised exc
\*   existed  deploy, delete: whether the deployment and the service existed
\*            when the operation started; the HPA operations: whether the HPA did
\*   fault    the first failure of a control-plane call the operation met
IdleOp ==
    [kind |-> "idle", pc |-> "idle", name |-> "", replicas |-> 0,
     labels |-> <<>>, hspec |-> <<>>, existed |-> <<FALSE, FALSE>>, fault |-> "None",
     ok |-> FALSE, status |-> <<>>, statuses |-> {}, exc |-> "None"]

StartOp(k, n) == [IdleOp EXCEPT !.kind = k, !.name = n]

Returned(o) == [o EXCEPT !.pc = "returned"]

\* the operation o of a connected manager after a control-plane call ended in f
Met(o, f) == IF o.fault = "None" THEN [o EXCEPT !.fault = f] ELSE o

\* ---- DeploymentManager.initialize, AutoscalerManager.initialize ----------------
\* the kubernetes configuration loads and _initialized is True, or anything
\* raises and it is False; between two operations of the manager, at any time
Initialize ==
    /\ op.kind = "idle"
    /\ dm_initialized' \in BOOLEAN
    /\ UNCHANGED <<clusterVars, hpa_initialized, op, requested>>
    /\ UNCHANGED <<routerVars, sharedVars, clockVars, restVars>>

InitializeHpa ==
    /\ op.kind = "idle"
    /\ hpa_initialized' \in BOOLEAN
    /\ UNCHANGED <<clusterVars, dm_initialized, op, requested>>
    /\ UNCHANGED <<routerVars, sharedVars, clockVars, restVars>>

\* ---- DeploymentManager.deploy ------------------------------------------------
\* the ApiException of a control-plane call for an object that is not there
ApiNotFound == "ApiException(404)"

\* up to create_namespaced_deployment: the deployment is created, or the call
\* answers 409 and the patch is still to be sent
deploy(spec, f) ==
    LET o == [StartOp("deploy", spec.name) EXCEPT
                 !.replicas = spec.replicas,
                 !.labels = spec.labels,
                 !.existed = <<deployments[spec.name] # <<>>,
                               services[spec.name] # <<>> >>]
    IN  /\ IF ~dm_initialized
           THEN /\ op' = Returned([o EXCEPT !.status = <<MockDeployStatus(spec)>>])
                /\ UNCHANGED deployments
           ELSE IF f # "None"
           THEN /\ op' = Returned([Met(o, f) EXCEPT
                                      !.status = <<ErrorStatus(spec.name, f)>>])
                /\ UNCHANGED deployments
           ELSE IF deployments[spec.name] # <<>>
           THEN /\ op' = [o EXCEPT !.pc = "patch"]
                /\ UNCHANGED deployments
           ELSE /\ op' = [o EXCEPT !.pc = "service"]
                /\ deployments' = [deployments EXCEPT
                                      ![spec.name] = <<NewDeployment(spec)>>]
        /\ requested' = IF ~dm_initialized \/ op'.pc = "service"
                        THEN [requested EXCEPT ![spec.name] = <<spec.replicas>>]
                        ELSE requested
        /\ UNCHANGED <<services, hpas, dm_initialized, hpa_initialized>>
        /\ UNCHANGED <<routerVars, sharedVars, clockVars>>

\* the spec a deploy operation o was called with
SpecOf(o) == [DeploymentSpec(o.name, o.replicas) EXCEPT !.labels = o.labels]

\* `if e.status == 409:` patch_namespaced_deployment; what the patch raises,
\* the 404 of a deployment deleted since the create included, leaves the
\* handler and becomes the error status
DeployPatch ==
    \E f \in Faults :
        /\ op.kind = "deploy" /\ op.pc = "patch"
        /\ IF f # "None"
           THEN /\ op' = Returned([Met(op, f) EXCEPT
                                      !.status = <<ErrorStatus(op.name, f)>>])
                /\ UNCHANGED <<deployments, requested>>
           ELSE IF deployments[op.name] = <<>>
           THEN /\ op' = Returned([op EXCEPT
                             !.status = <<ErrorStatus(op.name, ApiNotFound)>>])
                /\ UNCHANGED <<deployments, requested>>
           ELSE /\ op' = [op EXCEPT !.pc = "service"]
                /\ deployments' = [deployments EXCEPT ![op.name] =
                                      <<PatchDeployment(@[1], SpecOf(op))>>]
                /\ requested' = [requested EXCEPT ![op.name] = <<op.replicas>>]
        /\ UNCHANGED <<services, hpas, dm_initialized, hpa_initialized>>
        /\ UNCHANGED <<routerVars, sharedVars, clockVars, restVars>>

Deploy ==
    \E spec \in DeploymentSpecs : \E f \in Faults :
        op.kind = "idle" /\ deploy(spec, f) /\ UNCHANGED restVars

\* the "app" labels of the specs that carry one: the orchestrator's specs
\* have "app": entry.name
AppLabels == {"calc"}

\* deploy of a spec whose labels have the key "app"
DeployLabelled ==
    \E spec \in DeploymentSpecs : \E a \in AppLabels : \E f \in Faults :
        op.kind = "idle" /\ deploy(Labelled(spec, a), f) /\ UNCHANGED restVars

\* a spec with labels {"managed-by": "micro-adk"}
Managed(spec) == [spec EXCEPT !.labels = "managed-by" :> "micro-adk"]

\* deploy of a spec that list_deployments selects
DeployManaged ==
    \E spec \in DeploymentSpecs : \E f \in Faults :
        op.kind = "idle" /\ deploy(Managed(spec), f) /\ UNCHANGED restVars

\* _create_service: whatever it raises other than 409 is logged and dropped
DeployService ==
    \E f \in Faults :
        /\ op.kind = "deploy" /\ op.pc = "service"
        /\ services' = IF f = "None"
                       THEN [services EXCEPT ![op.name] =
                                ApplyService(@, SpecOf(op))]
                       ELSE services
        /\ op' = [Met(op, f) EXCEPT !.pc = "status"]
        /\ UNCHANGED <<deployments, hpas, dm_initialized, hpa_initialized, requested>>
        /\ UNCHANGED <<routerVars, sharedVars, clockVars, restVars>>

\* return await self.get_status(spec.name), inside deploy's try
DeployStatus ==
    \E f \in Faults :
        /\ op.kind = "deploy" /\ op.pc = "status"
        /\ LET g == get_status(op.name, f)
           IN  op' = Returned([Met(op, f) EXCEPT !.status =
                         IF g.exc # "None" THEN <<ErrorStatus(op.name, g.exc)>>
                         ELSE g.status])
        /\ UNCHANGED <<clusterVars, dm_initialized, hpa_initialized, requested>>
        /\ UNCHANGED <<routerVars, sharedVars, clockVars, restVars>>

\* ---- DeploymentManager.get_status, scale, delete, list_deployments ------------
GetStatus ==
    \E n \in Names : \E f \in Faults :
        /\ op.kind = "idle"
        /\ LET g == get_status(n, f)
               o == IF dm_initialized THEN Met(StartOp("get_status", n), f)
                    ELSE StartOp("get_status", n)
           IN  op' = IF g.exc # "None"
                     THEN [o EXCEPT !.pc = "raised", !.exc = g.exc]
                     ELSE Returned([o EXCEPT !.status = g.status])
        /\ UNCHANGED <<clusterVars, dm_initialized, hpa_initialized, requested>>
        /\ UNCHANGED <<routerVars, sharedVars, clockVars, restVars>>

\* a scale that reapplies a spec of the default labels with the new count
PatchScaleReapplied(d, r) == [d EXCEPT !.replicas = r, !.labels = <<>>]

\* patch_namespaced_deployment_scale with body {"spec": {"replicas": r}}
PatchScale(d, r) == [d EXCEPT !.replicas = r]

\* what scale(n, r) returns when its control-plane call meets f: True in
\* dry-run mode, else whether patch_namespaced_deployment_scale went through;
\* every exception is False
ScaleResult(n, f) == ~dm_initialized \/ (f = "None" /\ deployments[n] # <<>>)

\* scale(n, r) on the control plane
scale(n, r, f) ==
    /\ deployments' = IF dm_initialized /\ ScaleResult(n, f)
                      THEN [deployments EXCEPT ![n] = <<PatchScale(@[1], r)>>]
                      ELSE deployments
    /\ requested' = IF ScaleResult(n, f) THEN [requested EXCEPT ![n] = <<r>>]
                    ELSE requested
    /\ UNCHANGED <<services, hpas, dm_initialized, hpa_initialized>>
    /\ UNCHANGED <<routerVars, sharedVars, clockVars>>

Scale ==
    \E n \in Names : \E r \in 1..MaxReplicas : \E f \in Faults :
        LET o == [StartOp("scale", n) EXCEPT
                     !.replicas = r,
                     !.fault = IF dm_initialized THEN f ELSE "None"]
        IN  /\ op.kind = "idle"
            /\ op' = Returned([o EXCEPT !.ok = ScaleResult(n, f)])
            /\ scale(n, r, f)
            /\ UNCHANGED restVars

\* delete up to delete_namespaced_deployment and the handling of what it raises
delete(n, f) ==
    LET o == [StartOp("delete", n) EXCEPT
                 !.existed = <<deployments[n] # <<>>, services[n] # <<>> >>,
                 !.fault = IF dm_initialized THEN f ELSE "None"]
    IN  /\ IF ~dm_initialized
           THEN /\ op' = Returned([o EXCEPT !.ok = TRUE])
                /\ UNCHANGED deployments
           ELSE IF f = "ConnectionError"
           THEN /\ op' = [o EXCEPT !.pc = "raised", !.exc = f]
                /\ UNCHANGED deployments
           ELSE IF f = "ApiException"
           THEN /\ op' = Returned([o EXCEPT !.ok = AlreadyDeleted(500)])
                /\ UNCHANGED deployments
           ELSE IF deployments[n] = <<>>
           THEN /\ op' = Returned([o EXCEPT !.ok = AlreadyDeleted(404)])
                /\ UNCHANGED deployments
           ELSE /\ op' = [o EXCEPT !.pc = "delete_service"]
                /\ deployments' = [deployments EXCEPT ![n] = <<>>]
        /\ requested' = IF op'.pc = "delete_service" \/ op'.ok
                        THEN [requested EXCEPT ![n] = <<>>]
                        ELSE requested
        /\ UNCHANGED <<services, hpas, dm_initialized, hpa_initialized>>
        /\ UNCHANGED <<routerVars, sharedVars, clockVars>>

Delete ==
    \E n \in Names : \E f \in Faults :
        op.kind = "idle" /\ delete(n, f) /\ UNCHANGED restVars

\* delete_namespaced_service: its 404 is ignored, anything else goes the way of
\* the deployment's
DeleteService ==
    \E f \in Faults :
        /\ op.kind = "delete" /\ op.pc = "delete_service"
        /\ IF f = "ConnectionError"
           THEN /\ op' = [Met(op, f) EXCEPT !.pc = "raised", !.exc = f]
                /\ UNCHANGED services
           ELSE IF f = "ApiException"
           THEN /\ op' = Returned([Met(op, f) EXCEPT !.ok = AlreadyDeleted(500)])
                /\ UNCHANGED services
           ELSE /\ op' = Returned([op EXCEPT !.ok = TRUE])
                /\ services' = [services EXCEPT ![op.name] = <<>>]
        /\ UNCHANGED <<deployments, hpas, dm_initialized, hpa_initialized, requested>>
        /\ UNCHANGED <<routerVars, sharedVars, clockVars, restVars>>

\* the deployments a label selector managed-by=micro-adk selects
ManagedDeployments ==
    {n \in Names : /\ deployments[n] # <<>>
                   /\ DictGet(deployments[n][1].labels, "managed-by", "")
                          = "micro-adk"}

\* list_namespaced_deployment(label_selector="managed-by=micro-adk"): only
\* deployments whose spec had that label are listed.  Every exception is []
ListDeployments ==
    \E f \in Faults :
        /\ op.kind = "idle"
        /\ op' = Returned([StartOp("list_deployments", "") EXCEPT
                     !.fault = IF dm_initialized THEN f ELSE "None",
                     !.statuses =
                     IF dm_initialized /\ f = "None"
                     THEN {StatusOfDeployment(n, deployments[n][1]) :
                              n \in ManagedDeployments}
                     ELSE {}])
        /\ UNCHANGED <<clusterVars, dm_initialized, hpa_initialized, requested>>
        /\ UNCHANGED <<routerVars, sharedVars, clockVars, restVars>>

\* ---- AutoscalerManager.create_or_update_hpa, delete_hpa ------------------------
\* up to create_namespaced_horizontal_pod_autoscaler: the HPA is created, or
\* the call answers 409 and the patch is still to be sent
create_or_update_hpa(spec, f) ==
    LET o == [StartOp("create_or_update_hpa", spec.name) EXCEPT
                 !.hspec = <<spec>>,
                 !.existed = <<hpas[spec.name] # <<>>, FALSE>>,
                 !.fault = IF hpa_initialized THEN f ELSE "None"]
    IN  /\ IF ~hpa_initialized
           THEN /\ op' = Returned([o EXCEPT !.ok = TRUE])
                /\ UNCHANGED hpas
           ELSE IF f # "None"
           THEN /\ op' = Returned([o EXCEPT !.ok = FALSE])
                /\ UNCHANGED hpas
           ELSE IF hpas[spec.name] # <<>>
           THEN /\ op' = [o EXCEPT !.pc = "patch"]
                /\ UNCHANGED hpas
           ELSE /\ op' = Returned([o EXCEPT !.ok = TRUE])
                /\ hpas' = [hpas EXCEPT ![spec.name] = <<HpaBody(spec)>>]
        /\ UNCHANGED <<deployments, services, dm_initialized, hpa_initialized, requested>>
        /\ UNCHANGED <<routerVars, sharedVars, clockVars>>

\* `if e.status == 409:` patch_namespaced_horizontal_pod_autoscaler; what
\* the patch raises, the 404 of an HPA deleted since the create included, is
\* False
HpaPatch ==
    \E f \in Faults :
        /\ op.kind = "create_or_update_hpa" /\ op.pc = "patch"
        /\ IF f # "None"
           THEN /\ op' = Returned([Met(op, f) EXCEPT !.ok = FALSE])
                /\ UNCHANGED hpas
           ELSE IF hpas[op.name] = <<>>
           THEN /\ op' = Returned([op EXCEPT !.ok = FALSE])
                /\ UNCHANGED hpas
           ELSE /\ op' = Returned([op EXCEPT !.ok = TRUE])
                /\ hpas' = [hpas EXCEPT ![op.name] =
                               <<PatchHpa(@[1], HpaBody(op.hspec[1]))>>]
        /\ UNCHANGED <<deployments, services, dm_initialized, hpa_initialized, requested>>
        /\ UNCHANGED <<routerVars, sharedVars, clockVars, restVars>>

CreateOrUpdateHpa ==
    \E spec \in HPASpecs : \E f \in Faults :
        op.kind = "idle" /\ create_or_update_hpa(spec, f) /\ UNCHANGED restVars

delete_hpa(n, f) ==
    LET o == [StartOp("delete_hpa", n) EXCEPT
                 !.existed = <<hpas[n] # <<>>, FALSE>>,
                 !.fault = IF hpa_initialized THEN f ELSE "None"]
    IN  /\ IF ~hpa_initialized
           THEN /\ op' = Returned([o EXCEPT !.ok = TRUE])
                /\ UNCHANGED hpas
           ELSE IF f = "ConnectionError"
           THEN /\ op' = [o EXCEPT !.pc = "raised", !.exc = f]
                /\ UNCHANGED hpas
           ELSE IF f = "ApiException"
           THEN /\ op' = Returned([o EXCEPT !.ok = AlreadyDeleted(500)])
                /\ UNCHANGED hpas
           ELSE /\ op' = Returned([o EXCEPT !.ok = TRUE])
                /\ hpas' = [hpas EXCEPT ![n] = <<>>]
        /\ UNCHANGED <<deployments, services, dm_initialized, hpa_initialized, requested>>
        /\ UNCHANGED <<routerVars, sharedVars, clockVars>>

DeleteHpa ==
    \E n \in Names : \E f \in Faults :
        op.kind = "idle" /\ delete_hpa(n, f) /\ UNCHANGED restVars

\* two callers of the control plane, in two processes or threads: the one
\* whose operation is in op is suspended between two of its control-plane
\* calls, or between two operations, and the other one runs
Switch ==
    /\ op # other
    /\ op' = other
    /\ other' = op
    /\ UNCHANGED <<clusterVars, dm_initialized, hpa_initialized, requested>>
    /\ UNCHANGED <<routerVars, sharedVars, clockVars, orchVars, named, discovery>>

\* the caller has the outcome of its operation
Return ==
    /\ op.pc \in {"returned", "raised"}
    /\ op' = IdleOp
    /\ UNCHANGED <<clusterVars, dm_initialized, hpa_initialized, requested>>
    /\ UNCHANGED <<routerVars, sharedVars, clockVars, restVars>>

\* ---- the controllers of the control plane --------------------------------------
OptOf(k) == IF k = 0 THEN <<>> ELSE <<k>>

\* the deployment controller brings the number of pods to spec.replicas
Reconcile ==
    \E n \in Names :
        /\ deployments[n] # <<>>
        /\ OrZero(deployments[n][1].status_replicas) # deployments[n][1].replicas
        /\ LET d == deployments[n][1]
           IN  deployments' = [deployments EXCEPT ![n] =
                   <<[d EXCEPT
                        !.status_replicas = OptOf(d.replicas),
                        !.available_replicas =
                            OptOf(MinOf(OrZero(d.available_replicas), d.replicas))]>>]
        /\ UNCHANGED <<services, hpas, managerVars>>
        /\ UNCHANGED <<routerVars, sharedVars, clockVars, restVars>>

\* a pod becomes available
PodReady ==
    \E n \in Names :
        /\ deployments[n] # <<>>
        /\ OrZero(deployments[n][1].available_replicas)
               < OrZero(deployments[n][1].status_replicas)
        /\ deployments' = [deployments EXCEPT ![n] =
               <<[@[1] EXCEPT !.available_replicas = <<OrZero(@) + 1>>]>>]
        /\ UNCHANGED <<services, hpas, managerVars>>
        /\ UNCHANGED <<routerVars, sharedVars, clockVars, restVars>>

\* an available pod fails
PodFail ==
    \E n \in Names :
        /\ deployments[n] # <<>>
        /\ OrZero(deployments[n][1].available_replicas) > 0
        /\ deployments' = [deployments EXCEPT ![n] =
               <<[@[1] EXCEPT !.available_replicas = OptOf(OrZero(@) - 1)]>>]
        /\ UNCHANGED <<services, hpas, managerVars>>
        /\ UNCHANGED <<routerVars, sharedVars, clockVars, restVars>>

\* ---- tool descriptors ---------------------------------------------------------
\* a Python object is a record of its attributes: reading an attribute the
\* object does not have raises AttributeError
HasAttr(obj, a) == a \in DOMAIN obj

\* AutoscalingConfig of the registry: min_replicas, max_replicas, cpu_target,
\* memory_target
AutoscalingConfig(mn, mx, cpu, mem) ==
    [min_replicas |-> mn, max_replicas |-> mx, cpu_target |-> cpu,
     memory_target |-> mem]

\* the validation of the fields of AutoscalingConfig: min_replicas ge=1,
\* max_replicas ge=1, cpu_target ge=1 le=100, memory_target None or ge=1
\* le=100.  No validator relates one field to another
ValidateAutoscalingConfig(mn, mx, cpu, mem) ==
    IF /\ mn >= 1
       /\ mx >= 1
       /\ cpu >= 1 /\ cpu =< 100
       /\ (mem = <<>> \/ (mem[1] >= 1 /\ mem[1] =< 100))
    THEN "None"
    ELSE "ValidationError"

\* ToolManifestEntry, what ToolRegistry.load_manifest registers: resources is
\* a ResourceConfig and autoscaling an AutoscalingConfig, both set by default
ToolManifestEntry(t, cfg) ==
    [tool_id |-> t, name |-> t, env |-> "dict", resources |-> "ResourceConfig",
     autoscaling |-> <<cfg>>]

\* the autoscaling policy KubernetesOrchestrator reads from a descriptor:
\* enabled, min_replicas, max_replicas, target_cpu_percent; its memory target
\* is read nowhere
AutoscalingPolicy(en, mn, mx, cpu, mem) ==
    [enabled |-> en, min_replicas |-> mn, max_replicas |-> mx,
     target_cpu_percent |-> cpu, target_memory_percent |-> mem]

\* a descriptor with the attributes KubernetesOrchestrator reads: resources a
\* dict or None, env_vars, autoscaling None or a policy
ToolDescriptor(t, res, policy) ==
    [tool_id |-> t, name |-> t, env_vars |-> "dict", resources |-> res,
     autoscaling |-> policy]

\* a dict in insertion order: a sequence of [key, value] with distinct keys
Keys(d) == [i \in 1..Len(d) |-> d[i].key]

HasKey(d, k) == \E i \in 1..Len(d) : d[i].key = k

\* d[k] = v
SetItem(d, k, v) ==
    IF HasKey(d, k)
    THEN [i \in 1..Len(d) |-> IF d[i].key = k THEN [key |-> k, value |-> v]
                              ELSE d[i]]
    ELSE Append(d, [key |-> k, value |-> v])

\* `if k in d: del d[k]`
DelItem(d, k) == SelectSeq(d, LAMBDA e : e.key # k)

\* the value of key k in the dict d
ItemOf(d, k) == d[CHOOSE i \in 1..Len(d) : d[i].key = k].value

\* ToolRegistry.get_tool_entry: _tool_entries.get(tool_id), <<>> for None
EntryOf(reg, t) == IF HasKey(reg, t) THEN <<ItemOf(reg, t)>> ELSE <<>>

\* ToolRegistry._tool_entries after register_tool of the descriptors of the
\* sequence es in turn: a dict tool_id -> descriptor in the order of
\* registration
RegistryOf(es) == [i \in 1..Len(es) |-> [key |-> es[i].tool_id, value |-> es[i]]]

Reversed(es) == [i \in 1..Len(es) |-> es[Len(es) + 1 - i]]

\* the descriptors of the registries: what load_manifest registers; the
\* descriptor {autoscaling: {min:1, max:3, cpu:50}}, its policy also setting
\* a memory target of 70, with one whose policy is switched off; a
\* descriptor that leaves the values to the defaults, registered before a
\* ToolManifestEntry; a descriptor without policy, the other tool not
\* registered
Manifests ==
    {<<ToolManifestEntry("calc", AutoscalingConfig(1, 3, 50, <<>>)),
       ToolManifestEntry("weather", AutoscalingConfig(1, 3, 50, <<>>))>>,
     <<ToolDescriptor("calc", "dict", <<AutoscalingPolicy(TRUE, 1, 3, 50, <<70>>)>>),
       ToolDescriptor("weather", "None", <<AutoscalingPolicy(FALSE, 2, 10, 80, <<>>)>>)>>,
     <<ToolDescriptor("weather", "dict", <<AutoscalingPolicy(TRUE, 0, 0, 0, <<>>)>>),
       ToolManifestEntry("calc", AutoscalingConfig(1, 3, 50, <<>>))>>,
     <<ToolDescriptor("calc", "dict", <<>>)>>}

\* the descriptors registered in the order written
RegistriesInOrder == {RegistryOf(es) : es \in Manifests}

\* the registries: the descriptors registered in either order
Registries ==
    RegistriesInOrder \cup {RegistryOf(Reversed(es)) : es \in Manifests}

\* the registries of one tool: the first descriptor of each manifest
RegistriesOfOne == {RegistryOf(<<es[1]>>) : es \in Manifests}

\* the values a manifest gives to the fields of an autoscaling section
PolicyReplicas == 0..3
PolicyCpuTargets == {0, 50, 100, 101}
PolicyMemoryTargets == {<<>>, <<70>>}

\* register_tool(ToolManifestEntry(..., autoscaling=AutoscalingConfig(...))),
\* as load_manifest does for every tool of a manifest: the construction of
\* the AutoscalingConfig raises ValidationError, or the entry is registered
\* under its tool_id
RegisterTool ==
    \E t \in Tools : \E mn \in PolicyReplicas, mx \in PolicyReplicas :
    \E cpu \in PolicyCpuTargets : \E mem \in PolicyMemoryTargets :
        /\ orch.kind = "idle"
        /\ registry' =
               IF ValidateAutoscalingConfig(mn, mx, cpu, mem) = "None"
               THEN SetItem(registry, t,
                        ToolManifestEntry(t, AutoscalingConfig(mn, mx, cpu, mem)))
               ELSE registry
        /\ UNCHANGED <<deployed_tools, orch, sideVars>>
        /\ UNCHANGED <<routerVars, sharedVars, clockVars, clusterVars, managerVars>>

\* list_tool_entries: list(self._tool_entries.values()), the registered
\* descriptors in the order of registration
list_tool_entries(reg) == [i \in 1..Len(reg) |-> reg[i].value]

\* OrchestratorConfig: default_min_replicas, default_max_replicas,
\* default_target_cpu_percent
DefaultMinReplicas == 1
DefaultMaxReplicas == 10
DefaultTargetCpuPercent == 80

\* ---- the names of a tool's resources --------------------------------------------
\* str.lower() on one character
LowerChar(c) ==
    LET UpperCase == "ABCDEFGHIJKLMNOPQRSTUVWXYZ"
        LowerCase == "abcdefghijklmnopqrstuvwxyz"
    IN  IF \E i \in 1..Len(UpperCase) : SubSeq(UpperCase, i, i) = c
        THEN LET i == CHOOSE k \in 1..Len(UpperCase) :
                          SubSeq(UpperCase, k, k) = c
             IN  SubSeq(LowerCase, i, i)
        ELSE c

\* str.lower()
RECURSIVE Lower(_)
Lower(s) ==
    IF Len(s) = 0 THEN ""
    ELSE LowerChar(SubSeq(s, 1, 1)) \o Lower(SubSeq(s, 2, Len(s)))

\* str.replace(old, new) for one character old
RECURSIVE Replace(_, _, _)
Replace(s, old, new) ==
    IF Len(s) = 0 THEN ""
    ELSE (IF SubSeq(s, 1, 1) = old THEN new ELSE SubSeq(s, 1, 1))
         \o Replace(SubSeq(s, 2, Len(s)), old, new)

\* f"tool-{tool_id.lower().replace('_', '-')}"
get_deployment_name(tool_id) == "tool-" \o Replace(Lower(tool_id), "_", "-")

\* _get_service_name: the same name
get_service_name(tool_id) == "tool-" \o Replace(Lower(tool_id), "_", "-")

\* `x or d` on integers
OrDefault(x, d) == IF x = 0 THEN d ELSE x

\* the labels of _create_deployment_spec, config.common_labels being {}
LabelsOf(entry) ==
    ("app" :> entry.name) @@ ("tool-id" :> entry.tool_id)
        @@ ("managed-by" :> "micro-adk")

\* _create_deployment_spec: the exception it raises ("None" when it returns)
\* and the spec.  `(entry.resources or {}).get(...)` needs a dict: a
\* ResourceConfig has no get; entry.env_vars needs the attribute.  The
\* replicas are 1 without a policy, else `min_replicas or default_min_replicas`
create_deployment_spec(entry) ==
    IF entry.resources = "ResourceConfig" \/ ~HasAttr(entry, "env_vars")
    THEN [exc |-> "AttributeError", spec |-> <<>>]
    ELSE [exc |-> "None",
          spec |-> <<[DeploymentSpec(
                          get_deployment_name(entry.tool_id),
                          IF entry.autoscaling = <<>> THEN 1
                          ELSE OrDefault(entry.autoscaling[1].min_replicas,
                                         DefaultMinReplicas))
                      EXCEPT !.labels = LabelsOf(entry)]>>]

\* `tool_entry.autoscaling and tool_entry.autoscaling.enabled`: the exception
\* the test raises and its truth value
AutoscalingEnabled(entry) ==
    IF entry.autoscaling = <<>> THEN [exc |-> "None", value |-> FALSE]
    ELSE IF ~HasAttr(entry.autoscaling[1], "enabled")
    THEN [exc |-> "AttributeError", value |-> FALSE]
    ELSE [exc |-> "None", value |-> entry.autoscaling[1].enabled]

\* _create_hpa_spec of a descriptor with a policy: min, max and CPU target
\* are the policy's or, where that is 0, the defaults; no memory target
create_hpa_spec(entry) ==
    LET a == entry.autoscaling[1]
    IN  HPASpec(get_deployment_name(entry.tool_id),
                OrDefault(a.min_replicas, DefaultMinReplicas),
                OrDefault(a.max_replicas, DefaultMaxReplicas),
                OrDefault(a.target_cpu_percent, DefaultTargetCpuPercent),
                <<>>)

\* ---- the naming of resources, on tool_ids of any spelling ---------------------
MaxIdLen == 2

\* the characters of a tool_id: a letter in both cases and the two separators
IdChars == {"a", "A", "_", "-"}

RECURSIVE StringsOf(_)
StringsOf(k) ==
    IF k = 0 THEN {""}
    ELSE {c \o str : c \in IdChars, str \in StringsOf(k - 1)}

ToolIds == UNION {StringsOf(k) : k \in 1..MaxIdLen}

\* no name derived yet
Unnamed(a, b) == [ids |-> <<a, b>>, names |-> <<>>]

\* _get_deployment_name of both tool_ids
GetDeploymentNames ==
    /\ named.names = <<>>
    /\ named' = [named EXCEPT !.names = <<get_deployment_name(named.ids[1]),
                                          get_deployment_name(named.ids[2])>>]
    /\ UNCHANGED <<routerVars, sharedVars, clockVars, clusterVars, managerVars>>
    /\ UNCHANGED <<orchVars, discovery, other>>

\* ---- KubernetesOrchestrator ---------------------------------------------------
\* an orchestrator operation
\*   kind     "idle", "deploy_tool", "deploy_all_tools", "undeploy_tool",
\*            "undeploy_all_tools"
\*   pc       "idle"; "next": at the head of the loop of a bulk operation;
\*            "deploying": in deployment_manager.deploy; "hpa": in
\*            create_or_update_hpa; "hpa_delete": in delete_hpa; "deleting": in
\*            deployment_manager.delete; "returned"; "raised": raised exc
\*   tool, entry  the tool under way and its descriptor
\*   queue    bulk operations: what the loop has yet to visit
\*   attempted  the tools whose deploy_tool or undeploy_tool was called
\*   results  deploy_all_tools: the dict it returns
\*   hpa_applied  whether this deploy_tool called create_or_update_hpa
\*   dspec, hspec  the specs this deploy_tool handed to the managers
\*   url      get_service_url: the address it returned
IdleOrch ==
    [kind |-> "idle", pc |-> "idle", tool |-> "", entry |-> <<>>,
     queue |-> <<>>, attempted |-> {}, results |-> <<>>, hpa_applied |-> FALSE,
     dspec |-> <<>>, hspec |-> <<>>,
     ok |-> FALSE, status |-> <<>>, url |-> "", exc |-> "None"]

\* a bulk deploy that lets the exception of one tool go up
DeployRaisedAborts(o, e) == [o EXCEPT !.pc = "raised", !.exc = e]

\* deploy_tool of o.tool raised e: deploy_all_tools records an error status
\* under the tool_id and goes on, deploy_tool raises
DeployRaised(o, e) ==
    IF o.kind = "deploy_all_tools"
    THEN [o EXCEPT !.pc = "next",
                   !.results = SetItem(@, o.entry[1].tool_id,
                                       <<ErrorStatus(o.entry[1].name, e)>>)]
    ELSE [o EXCEPT !.pc = "raised", !.exc = e]

\* deploy_tool of o.tool returned the status st
DeployReturned(o, st) ==
    IF o.kind = "deploy_all_tools"
    THEN [o EXCEPT !.pc = "next",
                   !.results = SetItem(@, o.entry[1].tool_id, st)]
    ELSE [o EXCEPT !.pc = "returned", !.status = st]

\* undeploy_tool of o.tool raised e: nothing catches it
UndeployRaised(o, e) == [o EXCEPT !.pc = "raised", !.exc = e]

\* undeploy_tool of o.tool returned: undeploy_all_tools drops the result
UndeployReturned(o, result) ==
    IF o.kind = "undeploy_all_tools" THEN [o EXCEPT !.pc = "next"]
    ELSE [o EXCEPT !.pc = "returned", !.ok = result]

\* deploy_tool(t, e) as called by operation o, up to the deployment manager's
\* apply of the deployment: the descriptor is e or, without one, the
\* registry's; no descriptor is a ValueError
deploy_tool(o, t, e) ==
    LET entry == IF e = <<>> THEN EntryOf(registry, t) ELSE e
        o1 == [o EXCEPT !.tool = t, !.entry = entry,
                        !.attempted = @ \cup {t}, !.hpa_applied = FALSE,
                        !.dspec = <<>>, !.hspec = <<>>]
    IN  IF entry = <<>>
        THEN /\ orch' = DeployRaised([o1 EXCEPT !.entry = e], "ValueError")
             /\ UNCHANGED <<clusterVars, managerVars>>
             /\ UNCHANGED <<routerVars, sharedVars, clockVars>>
        ELSE LET c == create_deployment_spec(entry[1])
             IN  IF c.exc # "None"
                 THEN /\ orch' = DeployRaised(o1, c.exc)
                      /\ UNCHANGED <<clusterVars, managerVars>>
                      /\ UNCHANGED <<routerVars, sharedVars, clockVars>>
                 ELSE /\ orch' = [o1 EXCEPT !.pc = "deploying", !.dspec = c.spec]
                      /\ \E f \in Faults : deploy(c.spec[1], f)

\* undeploy_tool(t) as called by operation o, up to delete_hpa
undeploy_tool(o, t) ==
    /\ orch' = [o EXCEPT !.tool = t, !.attempted = @ \cup {t},
                         !.pc = "hpa_delete"]
    /\ \E f \in Faults : delete_hpa(get_deployment_name(t), f)

\* KubernetesOrchestrator(...) over the same registry and namespace: the new
\* instance tracks nothing and has two new managers, neither initialized
NewOrchestrator ==
    /\ orch.kind = "idle" /\ op.kind = "idle"
    /\ deployed_tools' = <<>>
    /\ dm_initialized' = FALSE
    /\ hpa_initialized' = FALSE
    /\ UNCHANGED <<sideVars, registry, orch, clusterVars, op, requested>>
    /\ UNCHANGED <<routerVars, sharedVars, clockVars>>

\* KubernetesOrchestrator.initialize: initialize of the deployment manager,
\* then of the autoscaler manager, each with its own outcome
OrchInitialize ==
    /\ orch.kind = "idle" /\ op.kind = "idle"
    /\ dm_initialized' \in BOOLEAN
    /\ hpa_initialized' \in BOOLEAN
    /\ UNCHANGED <<clusterVars, op, requested>>
    /\ UNCHANGED <<routerVars, sharedVars, clockVars, restVars>>

\* deploy_tool(t): the descriptor is looked up in the registry
DeployTool ==
    \E t \in Tools :
        /\ orch.kind = "idle" /\ op.kind = "idle"
        /\ deploy_tool([IdleOrch EXCEPT !.kind = "deploy_tool"], t, <<>>)
        /\ UNCHANGED <<sideVars, registry, deployed_tools>>

\* deployment_manager.deploy returned: the HPA, if the policy is enabled
DeployToolHpa ==
    /\ orch.pc = "deploying" /\ op.kind = "deploy" /\ op.pc = "returned"
    /\ LET en == AutoscalingEnabled(orch.entry[1])
           o1 == [orch EXCEPT !.status = op.status]
       IN  IF en.exc # "None"
           THEN /\ orch' = DeployRaised(o1, en.exc)
                /\ op' = IdleOp
                /\ UNCHANGED <<clusterVars, dm_initialized, hpa_initialized,
                               requested, deployed_tools>>
                /\ UNCHANGED <<routerVars, sharedVars, clockVars>>
           ELSE IF en.value
           THEN /\ orch' = [o1 EXCEPT !.pc = "hpa", !.hpa_applied = TRUE,
                                     !.hspec = <<create_hpa_spec(orch.entry[1])>>]
                /\ \E f \in Faults :
                       create_or_update_hpa(create_hpa_spec(orch.entry[1]), f)
                /\ UNCHANGED deployed_tools
           ELSE /\ orch' = DeployReturned(o1, op.status)
                /\ deployed_tools' = SetItem(deployed_tools, orch.tool, op.status)
                /\ op' = IdleOp
                /\ UNCHANGED <<clusterVars, dm_initialized, hpa_initialized,
                               requested>>
                /\ UNCHANGED <<routerVars, sharedVars, clockVars>>
    /\ UNCHANGED <<sideVars, registry>>

\* create_or_update_hpa returned, whatever it returned:
\* self._deployed_tools[tool_id] = status
DeployToolDone ==
    /\ orch.pc = "hpa" /\ op.kind = "create_or_update_hpa"
    /\ op.pc = "returned"
    /\ orch' = DeployReturned(orch, orch.status)
    /\ deployed_tools' = SetItem(deployed_tools, orch.tool, orch.status)
    /\ op' = IdleOp
    /\ UNCHANGED <<sideVars, registry, clusterVars, dm_initialized, hpa_initialized,
                   requested>>
    /\ UNCHANGED <<routerVars, sharedVars, clockVars>>

DeployAllTools ==
    /\ orch.kind = "idle" /\ op.kind = "idle"
    /\ orch' = [IdleOrch EXCEPT !.kind = "deploy_all_tools", !.pc = "next",
                   !.queue = list_tool_entries(registry)]
    /\ UNCHANGED <<sideVars, registry, deployed_tools, clusterVars, managerVars>>
    /\ UNCHANGED <<routerVars, sharedVars, clockVars>>

\* the loop of deploy_all_tools: the next descriptor, or the results
DeployAllNext ==
    /\ orch.kind = "deploy_all_tools" /\ orch.pc = "next"
    /\ IF orch.queue = <<>>
       THEN /\ orch' = [orch EXCEPT !.pc = "returned"]
            /\ UNCHANGED <<clusterVars, managerVars>>
            /\ UNCHANGED <<routerVars, sharedVars, clockVars>>
       ELSE deploy_tool([orch EXCEPT !.queue = Tail(@)],
                        Head(orch.queue).tool_id, <<Head(orch.queue)>>)
    /\ UNCHANGED <<sideVars, registry, deployed_tools>>

UndeployTool ==
    \E t \in Tools :
        /\ orch.kind = "idle" /\ op.kind = "idle"
        /\ undeploy_tool([IdleOrch EXCEPT !.kind = "undeploy_tool"], t)
        /\ UNCHANGED <<sideVars, registry, deployed_tools>>

\* delete_hpa is over: what it raised goes up, what it returned is dropped,
\* and deployment_manager.delete is called
UndeployToolDelete ==
    /\ orch.pc = "hpa_delete" /\ op.kind = "delete_hpa"
    /\ IF op.pc = "raised"
       THEN /\ orch' = UndeployRaised(orch, op.exc)
            /\ op' = IdleOp
            /\ UNCHANGED <<clusterVars, dm_initialized, hpa_initialized,
                           requested>>
            /\ UNCHANGED <<routerVars, sharedVars, clockVars>>
       ELSE /\ orch' = [orch EXCEPT !.pc = "deleting"]
            /\ \E f \in Faults : delete(get_deployment_name(orch.tool), f)
    /\ UNCHANGED <<sideVars, registry, deployed_tools>>

\* deployment_manager.delete is over: what it raised goes up; else the tool
\* is no longer tracked and the result is returned
UndeployToolDone ==
    /\ orch.pc = "deleting" /\ op.kind = "delete"
    /\ op.pc \in {"returned", "raised"}
    /\ IF op.pc = "raised"
       THEN /\ orch' = UndeployRaised(orch, op.exc)
            /\ UNCHANGED deployed_tools
       ELSE /\ orch' = UndeployReturned(orch, op.ok)
            /\ deployed_tools' = DelItem(deployed_tools, orch.tool)
    /\ op' = IdleOp
    /\ UNCHANGED <<sideVars, registry, clusterVars, dm_initialized, hpa_initialized,
                   requested>>
    /\ UNCHANGED <<routerVars, sharedVars, clockVars>>

\* for tool_id in list(self._deployed_tools.keys())
UndeployAllTools ==
    /\ orch.kind = "idle" /\ op.kind = "idle"
    /\ orch' = [IdleOrch EXCEPT !.kind = "undeploy_all_tools", !.pc = "next",
                   !.queue = Keys(deployed_tools)]
    /\ UNCHANGED <<sideVars, registry, deployed_tools, clusterVars, managerVars>>
    /\ UNCHANGED <<routerVars, sharedVars, clockVars>>

\* the loop of undeploy_all_tools: the next tracked tool, or the end
UndeployAllNext ==
    /\ orch.kind = "undeploy_all_tools" /\ orch.pc = "next"
    /\ IF orch.queue = <<>>
       THEN /\ orch' = [orch EXCEPT !.pc = "returned"]
            /\ UNCHANGED <<clusterVars, managerVars>>
            /\ UNCHANGED <<routerVars, sharedVars, clockVars>>
       ELSE undeploy_tool([orch EXCEPT !.queue = Tail(@)], Head(orch.queue))
    /\ UNCHANGED <<sideVars, registry, deployed_tools>>

\* OrchestratorConfig.namespace, by default
OrchNamespace == "default"

\* an address given only for the tools the orchestrator tracks
GetServiceUrlIfTracked(tool_id, namespace) ==
    IF HasKey(deployed_tools, tool_id)
    THEN "http://" \o get_service_name(tool_id) \o "." \o namespace
             \o ".svc.cluster.local"
    ELSE ""

\* f"http://{service_name}.{self.config.namespace}.svc.cluster.local"
get_service_url(tool_id, namespace) ==
    "http://" \o get_service_name(tool_id) \o "." \o namespace
        \o ".svc.cluster.local"

GetServiceUrl ==
    \E t \in Tools :
        /\ orch.kind = "idle" /\ op.kind = "idle"
        /\ orch' = [IdleOrch EXCEPT !.kind = "get_service_url",
                                    !.pc = "returned", !.tool = t,
                                    !.url = get_service_url(t, OrchNamespace)]
        /\ UNCHANGED <<sideVars, registry, deployed_tools, clusterVars, managerVars>>
        /\ UNCHANGED <<routerVars, sharedVars, clockVars>>

\* scale_tool(t, r): deployment_manager.scale of the tool's deployment
ScaleTool ==
    \E t \in Tools : \E r \in 1..MaxReplicas : \E f \in Faults :
        /\ orch.kind = "idle" /\ op.kind = "idle"
        /\ orch' = [IdleOrch EXCEPT
                       !.kind = "scale_tool", !.pc = "returned", !.tool = t,
                       !.ok = ScaleResult(get_deployment_name(t), f)]
        /\ scale(get_deployment_name(t), r, f)
        /\ UNCHANGED <<op, sideVars, registry, deployed_tools>>

\* the caller has the outcome of its orchestrator operation
OrchReturn ==
    /\ orch.pc \in {"returned", "raised"}
    /\ orch' = IdleOrch
    /\ UNCHANGED <<sideVars, registry, deployed_tools, clusterVars, managerVars>>
    /\ UNCHANGED <<routerVars, sharedVars, clockVars>>

\* ---- ServiceDiscovery ----------------------------------------------------------
Modes == {"static", "kubernetes", "docker", "consul"}

Namespace == "default"

ServiceSuffixes == {"", "-svc"}

\* the longest label of a host name the idna codec of gethostbyname encodes
MaxLabel == 63

\* a service name of MaxLabel + 1 characters
LongName == "tool-a-very-long-tool-identifier-that-has-grown-beyond-all-limit"

\* the service names handed to discover
Hints == {"tool-calc", "tool-weather", "", LongName}

\* ServiceInfo; discovered_via is its metadata
ServiceInfo(t, n, h, p, hl, via) ==
    [tool_id |-> t, name |-> n, host |-> h, port |-> p, healthy |-> hl,
     discovered_via |-> via]

\* the name _discover_kubernetes resolves
KubernetesFqdn(service_name, suffix) ==
    IF suffix # ""
    THEN service_name \o suffix \o "." \o Namespace \o ".svc.cluster.local"
    ELSE service_name \o "." \o Namespace \o ".svc.cluster.local"

\* the name _discover_docker resolves
DockerHost(service_name, suffix) ==
    IF suffix # "" THEN service_name \o suffix ELSE service_name

\* the idna codec on a host name: every label, the run of characters from one
\* dot to the next, has 1 to MaxLabel characters; the last one may be empty
Encodable(host) ==
    LET Dots == {i \in 1..Len(host) : SubSeq(host, i, i) = "."}
        DotBefore(i) ==
            LET before == {k \in Dots : k < i}
            IN  IF before = {} THEN 0
                ELSE CHOOSE k \in before : \A m \in before : m <= k
    IN  /\ \A i \in Dots : i - DotBefore(i) - 1 \in 1..MaxLabel
        /\ Len(host) - DotBefore(Len(host) + 1) <= MaxLabel

\* socket.gethostbyname(host) under a name service that knows the names in
\* `known`: a name the codec refuses raises UnicodeError, the empty name is
\* the wildcard address, an unknown name raises socket.gaierror
gethostbyname(host, known) ==
    IF ~Encodable(host) THEN "UnicodeError"
    ELSE IF host = "" \/ host \in known THEN "resolved"
    ELSE "gaierror"

\* _discover_kubernetes: the exception it raises ("None" when it returns) and
\* the Optional ServiceInfo
discover_kubernetes(tool_id, service_name, suffix, known) ==
    LET fqdn == KubernetesFqdn(service_name, suffix)
        r == gethostbyname(fqdn, known)
    IN  IF r = "resolved"
        THEN [exc |-> "None",
              value |-> <<ServiceInfo(tool_id, service_name, fqdn, 80, TRUE,
                                      "kubernetes_dns")>>]
        ELSE IF r = "gaierror" THEN [exc |-> "None", value |-> <<>>]
        ELSE [exc |-> r, value |-> <<>>]

\* _discover_docker
discover_docker(tool_id, service_name, suffix, known) ==
    LET host == DockerHost(service_name, suffix)
        r == gethostbyname(host, known)
    IN  IF r = "resolved"
        THEN [exc |-> "None",
              value |-> <<ServiceInfo(tool_id, service_name, host, 80, TRUE,
                                      "docker_compose")>>]
        ELSE IF r = "gaierror"
        THEN [exc |-> "None",
              value |-> <<ServiceInfo(tool_id, service_name, host, 80, FALSE,
                                      "docker_compose")>>]
        ELSE [exc |-> r, value |-> <<>>]

\* discover of the ServiceDiscovery d
discover(d, tool_id, service_name) ==
    IF d.mode = "static" THEN [exc |-> "None", value |-> d.static[tool_id]]
    ELSE IF d.mode = "kubernetes"
    THEN discover_kubernetes(tool_id, service_name, d.service_suffix, d.known)
    ELSE IF d.mode = "docker"
    THEN discover_docker(tool_id, service_name, d.service_suffix, d.known)
    ELSE [exc |-> "None", value |-> <<>>]

\* an operation of a caller of the ServiceDiscovery
\*   kind    "idle", "discover", "discover_all"
\*   pc      "idle"; "next": discover_all at the head of its loop;
\*           "resolving": suspended in `await loop.run_in_executor(None,
\*           socket.gethostbyname, ...)` for its pair, or for the head of
\*           its queue; "returned": returned value or results;
\*           "raised": raised exc
\*   tools   the dict handed to discover_all, or the one pair handed to discover
\*   queue   what the loop of discover_all has yet to visit
IdleDiscovery ==
    [kind |-> "idle", pc |-> "idle", tools |-> <<>>, queue |-> <<>>,
     results |-> <<>>, value |-> <<>>, exc |-> "None"]

\* a ServiceDiscovery, the operation of the coroutine that runs and the one
\* of a second coroutine of the same event loop
\*   mode, service_suffix, static   as constructed and registered
\*   known   the host names the name service resolves
\*   second  the operation of the coroutine that does not run
NoDiscovery ==
    [mode |-> "static", service_suffix |-> "", known |-> {},
     static |-> [t \in Tools |-> <<>>],
     kind |-> "idle", pc |-> "idle", tools |-> <<>>, queue |-> <<>>,
     results |-> <<>>, value |-> <<>>, exc |-> "None",
     second |-> IdleDiscovery]

\* the operation of the coroutine that runs
OperationOf(d) ==
    [kind |-> d.kind, pc |-> d.pc, tools |-> d.tools, queue |-> d.queue,
     results |-> d.results, value |-> d.value, exc |-> d.exc]

\* discover awaits the name service in these modes, and in no other
Suspends(d) == d.mode \in {"kubernetes", "docker"}

\* the host name under which the ServiceDiscovery d looks for a service
HostOf(d, service_name) ==
    IF d.mode = "kubernetes" THEN KubernetesFqdn(service_name, d.service_suffix)
    ELSE DockerHost(service_name, d.service_suffix)

\* the dicts handed to discover_all: each tool absent or with a service name
ToolDicts ==
    {(IF c = "absent" THEN <<>> ELSE <<[key |-> "calc", value |-> c]>>)
     \o (IF w = "absent" THEN <<>> ELSE <<[key |-> "weather", value |-> w]>>) :
        c \in Hints \cup {"absent"}, w \in Hints \cup {"absent"}}

unchangedByDiscovery ==
    <<routerVars, sharedVars, clockVars, clusterVars, managerVars, orchVars,
      named, other>>

\* register_static, by a caller that has no operation under way or while
\* the one that has is suspended
RegisterStatic ==
    \E t \in Tools :
        /\ discovery.pc \in {"idle", "resolving"}
        /\ discovery' = [discovery EXCEPT !.static[t] =
               <<ServiceInfo(t, t, "localhost", 8080, TRUE, "")>>]
        /\ UNCHANGED unchangedByDiscovery

\* discover(t, hint) up to its await: in the modes that resolve a name the
\* coroutine is suspended while an executor thread runs gethostbyname, in
\* the others it returns without giving way
Discover ==
    \E t \in Tools : \E hint \in Hints :
        /\ discovery.kind = "idle"
        /\ LET r == discover(discovery, t, hint)
               d == [discovery EXCEPT
                        !.kind = "discover",
                        !.tools = <<[key |-> t, value |-> hint]>>]
           IN  discovery' =
                   IF Suspends(discovery)
                   THEN [d EXCEPT !.pc = "resolving"]
                   ELSE [d EXCEPT
                            !.pc = IF r.exc = "None" THEN "returned" ELSE "raised",
                            !.value = r.value, !.exc = r.exc]
        /\ UNCHANGED unchangedByDiscovery

\* gethostbyname is over: the suspended discover goes on with its outcome,
\* and with it the loop of discover_all that awaited it
DiscoverResolve ==
    /\ discovery.pc = "resolving"
    /\ LET item == IF discovery.kind = "discover" THEN discovery.tools[1]
                   ELSE Head(discovery.queue)
           r == discover(discovery, item.key, item.value)
       IN  discovery' =
               IF discovery.kind = "discover"
               THEN [discovery EXCEPT
                        !.pc = IF r.exc = "None" THEN "returned" ELSE "raised",
                        !.value = r.value, !.exc = r.exc]
               ELSE IF r.exc # "None"
               THEN [discovery EXCEPT !.pc = "raised", !.exc = r.exc,
                                      !.queue = Tail(@)]
               ELSE [discovery EXCEPT
                        !.pc = "next", !.queue = Tail(@),
                        !.results = SetItem(@, item.key, r.value)]
    /\ UNCHANGED unchangedByDiscovery

\* the event loop runs the other coroutine: the one that ran is suspended in
\* its await, or is between two operations, and the other one is ready
DiscoverySwitch ==
    /\ discovery.pc # "next"
    /\ discovery.pc = "resolving" \/ discovery.second.kind # "idle"
    /\ OperationOf(discovery) # discovery.second
    /\ LET s == discovery.second
       IN  discovery' = [discovery EXCEPT
               !.kind = s.kind, !.pc = s.pc, !.tools = s.tools,
               !.queue = s.queue, !.results = s.results, !.value = s.value,
               !.exc = s.exc, !.second = OperationOf(discovery)]
    /\ UNCHANGED unchangedByDiscovery

\* discover_all(tools), of which the two coroutines run one at a time
DiscoverAll ==
    \E tools \in ToolDicts :
        /\ discovery.kind = "idle"
        /\ discovery.second.kind # "discover_all"
        /\ discovery' = [discovery EXCEPT !.kind = "discover_all",
                            !.pc = "next", !.tools = tools, !.queue = tools]
        /\ UNCHANGED unchangedByDiscovery

\* the loop of discover_all: results[tool_id] = await self.discover(...)
DiscoverAllNext ==
    /\ discovery.kind = "discover_all" /\ discovery.pc = "next"
    /\ IF discovery.queue = <<>>
       THEN discovery' = [discovery EXCEPT !.pc = "returned"]
       ELSE LET item == Head(discovery.queue)
                r == discover(discovery, item.key, item.value)
            IN  discovery' =
                    IF Suspends(discovery)
                    THEN [discovery EXCEPT !.pc = "resolving"]
                    ELSE IF r.exc # "None"
                    THEN [discovery EXCEPT !.pc = "raised", !.exc = r.exc,
                                           !.queue = Tail(@)]
                    ELSE [discovery EXCEPT
                             !.queue = Tail(@),
                             !.results = SetItem(@, item.key, r.value)]
    /\ UNCHANGED unchangedByDiscovery

\* the caller has the outcome of its discovery
DiscoveryReturn ==
    /\ discovery.pc \in {"returned", "raised"}
    /\ discovery' = [discovery EXCEPT !.kind = "idle", !.pc = "idle",
                        !.tools = <<>>, !.queue = <<>>, !.results = <<>>,
                        !.value = <<>>, !.exc = "None"]
    /\ UNCHANGED unchangedByDiscovery

\* ---- specifications --------------------------------------------------------
InitRouter ==
    /\ service_urls = [t \in Tools |-> <<>>]
    /\ client = FALSE
    /\ calls = [i \in Slots |-> FreeCall]
    /\ batch = IdleBatch
    /\ consec = [t \in Tools |-> 0]
    /\ closing = 0
    /\ closed = FALSE
    /\ on_client = {}
    /\ severed = {}
    /\ now = 0
    /\ registered_at = [t \in Tools |-> 0]

\* an empty control plane
InitCluster ==
    /\ deployments = [n \in Names |-> <<>>]
    /\ services = [n \in Names |-> <<>>]
    /\ hpas = [n \in Names |-> <<>>]
    /\ op = IdleOp
    /\ requested = [n \in Names |-> <<>>]

\* no name derived, no discovery in use
InitRest ==
    /\ named = Unnamed("calc", "weather")
    /\ discovery = NoDiscovery
    /\ other = IdleOp

\* no orchestrator in use
InitNoOrch ==
    /\ registry = <<>>
    /\ deployed_tools = <<>>
    /\ orch = IdleOrch
    /\ InitRest

\* no manager in use
InitNoManager ==
    /\ dm_initialized = FALSE
    /\ hpa_initialized = FALSE
    /\ InitCluster
    /\ InitNoOrch

\* a router constructed with any configuration, serving single invokes
Init == config \in Configs /\ InitRouter /\ InitNoManager

Next == Register \/ Invoke \/ Reply \/ Wake \/ Complete

Spec == Init /\ [][Next]_vars

\* the router of Spec where every POST in flight ends, by a response, a
\* connection failure or one of the timeouts of the client, every backoff
\* sleep ends and the caller takes its outcome
SpecLive ==
    /\ Init /\ [][Next]_vars
    /\ WF_vars(Reply) /\ WF_vars(Wake) /\ WF_vars(Complete)

\* a router with max_retries = BatchRetries, serving invoke and invoke_batch
InitBatch ==
    /\ config = ConfigOf(BatchRetries, 1, 10 * Second, TRUE)
    /\ InitRouter
    /\ InitNoManager

NextBatch == Register \/ Invoke \/ InvokeBatch \/ Reply \/ Wake \/ Complete

SpecBatch == InitBatch /\ [][NextBatch]_vars

\* the router of SpecBatch shared with a second caller that registers, probes
\* and closes while the first one's invokes are under way
NextShared ==
    \/ Register \/ Invoke \/ InvokeBatch \/ Reply \/ Wake \/ Complete
    \/ CloseBegin \/ CloseClosed \/ CloseEnd \/ HealthCheck

SpecShared == InitBatch /\ [][NextShared]_vars

\* the router of SpecBatch, single invokes, under a clock
NextTtl == Register \/ Invoke \/ Reply \/ Wake \/ Complete \/ Tick

SpecTtl == InitBatch /\ [][NextTtl]_vars

\* a DeploymentManager, connected to the control plane or in dry-run mode
InitDeploy ==
    /\ config = ConfigOf(BatchRetries, 1, 10 * Second, TRUE)
    /\ InitRouter
    /\ dm_initialized \in BOOLEAN
    /\ hpa_initialized = FALSE
    /\ InitCluster
    /\ InitNoOrch

NextDeploy ==
    \/ Deploy \/ DeployPatch \/ DeployService \/ DeployStatus \/ GetStatus \/ Scale
    \/ Delete \/ DeleteService \/ ListDeployments \/ Return \/ Initialize
    \/ Reconcile \/ PodReady \/ PodFail

SpecDeploy == InitDeploy /\ [][NextDeploy]_vars

\* a DeploymentManager that reports on deployments with and without the
\* label managed-by, the controllers of the control plane at work
NextStatus ==
    \/ Deploy \/ DeployManaged \/ DeployPatch \/ DeployService \/ DeployStatus
    \/ GetStatus \/ ListDeployments \/ Return
    \/ Reconcile \/ PodReady \/ PodFail

SpecStatus == InitDeploy /\ [][NextStatus]_vars

\* a DeploymentManager that is handed specs with and without an "app" label;
\* the control plane has no controllers at work
NextService ==
    \/ Deploy \/ DeployLabelled \/ DeployPatch \/ DeployService \/ DeployStatus \/ Scale
    \/ Delete \/ DeleteService \/ Return

\* the control plane may hold HPAs for the deployments to come
InitService ==
    /\ config = ConfigOf(BatchRetries, 1, 10 * Second, TRUE)
    /\ InitRouter
    /\ dm_initialized \in BOOLEAN
    /\ hpa_initialized = FALSE
    /\ deployments = [n \in Names |-> <<>>]
    /\ services = [n \in Names |-> <<>>]
    /\ \E present \in BOOLEAN :
           hpas = [n \in Names |->
                      IF present
                      THEN <<HpaBody(HPASpec(n, DefaultMinReplicas,
                                             DefaultMaxReplicas,
                                             DefaultTargetCpuPercent, <<>>))>>
                      ELSE <<>>]
    /\ op = IdleOp
    /\ requested = [n \in Names |-> <<>>]
    /\ InitNoOrch

SpecService == InitService /\ [][NextService]_vars

\* two callers that each deploy or delete once on one control plane, each
\* call of the one between any two of the other's
NextCallers ==
    \/ Deploy \/ DeployLabelled \/ DeployPatch \/ DeployService \/ DeployStatus
    \/ Delete \/ DeleteService \/ Switch

\* the namespace may hold a deployment and a service of each name, as an
\* earlier deploy of the default spec left them
InitCallers ==
    /\ config = ConfigOf(BatchRetries, 1, 10 * Second, TRUE)
    /\ InitRouter
    /\ dm_initialized \in BOOLEAN
    /\ hpa_initialized = FALSE
    /\ \E present \in BOOLEAN :
           /\ deployments =
                  [n \in Names |->
                      IF present THEN <<NewDeployment(DeploymentSpec(n, 1))>>
                      ELSE <<>>]
           /\ services =
                  [n \in Names |->
                      IF present THEN <<ServiceOf(DeploymentSpec(n, 1))>>
                      ELSE <<>>]
    /\ hpas = [n \in Names |-> <<>>]
    /\ op = IdleOp
    /\ requested = [n \in Names |-> <<>>]
    /\ InitNoOrch

SpecCallers == InitCallers /\ [][NextCallers]_vars

\* an AutoscalerManager, connected to the control plane or in dry-run mode
InitHpa ==
    /\ config = ConfigOf(BatchRetries, 1, 10 * Second, TRUE)
    /\ InitRouter
    /\ dm_initialized = FALSE
    /\ hpa_initialized \in BOOLEAN
    /\ InitCluster
    /\ InitNoOrch

NextHpa ==
    CreateOrUpdateHpa \/ HpaPatch \/ DeleteHpa \/ Return \/ InitializeHpa

SpecHpa == InitHpa /\ [][NextHpa]_vars

\* a KubernetesOrchestrator as constructed over one of the registries:
\* neither of its managers is initialized
InitOrch ==
    /\ config = ConfigOf(BatchRetries, 1, 10 * Second, TRUE)
    /\ InitRouter
    /\ dm_initialized = FALSE
    /\ hpa_initialized = FALSE
    /\ InitCluster
    /\ registry \in RegistriesInOrder
    /\ deployed_tools = <<>>
    /\ orch = IdleOrch
    /\ InitRest

NextOrch ==
    \/ NewOrchestrator \/ OrchInitialize
    \/ DeployTool \/ DeployPatch \/ DeployService \/ DeployStatus \/ DeployToolHpa
    \/ HpaPatch
    \/ DeployToolDone \/ DeployAllTools \/ DeployAllNext
    \/ UndeployTool \/ UndeployToolDelete \/ DeleteService \/ UndeployToolDone
    \/ UndeployAllTools \/ UndeployAllNext \/ OrchReturn

SpecOrch == InitOrch /\ [][NextOrch]_vars

\* one KubernetesOrchestrator for good over a registry of one tool:
\* initialize, deploy_tool, scale_tool, get_service_url, undeploy_tool and
\* undeploy_all_tools in any order, no other instance and no other client of
\* the control plane
NextTracking ==
    \/ OrchInitialize \/ ScaleTool
    \/ DeployTool \/ DeployPatch \/ DeployService \/ DeployStatus \/ DeployToolHpa
    \/ HpaPatch
    \/ DeployToolDone
    \/ UndeployTool \/ UndeployToolDelete \/ DeleteService \/ UndeployToolDone
    \/ UndeployAllTools \/ UndeployAllNext \/ GetServiceUrl \/ OrchReturn

InitTracking ==
    /\ config = ConfigOf(BatchRetries, 1, 10 * Second, TRUE)
    /\ InitRouter
    /\ dm_initialized = FALSE
    /\ hpa_initialized = FALSE
    /\ InitCluster
    /\ registry \in RegistriesOfOne
    /\ deployed_tools = <<>>
    /\ orch = IdleOrch
    /\ InitRest

SpecTracking == InitTracking /\ [][NextTracking]_vars

\* the naming of two tool_ids
InitNaming ==
    /\ config = ConfigOf(BatchRetries, 1, 10 * Second, TRUE)
    /\ InitRouter
    /\ dm_initialized = FALSE
    /\ hpa_initialized = FALSE
    /\ InitCluster
    /\ registry = <<>>
    /\ deployed_tools = <<>>
    /\ orch = IdleOrch
    /\ \E a \in ToolIds, b \in ToolIds : named = Unnamed(a, b)
    /\ discovery = NoDiscovery
    /\ other = IdleOp

NextNaming == GetDeploymentNames

SpecNaming == InitNaming /\ [][NextNaming]_vars

\* a ServiceDiscovery of any mode and suffix, in an environment where any of
\* the two services is up, its host name known to the name service
InitDiscovery ==
    /\ config = ConfigOf(BatchRetries, 1, 10 * Second, TRUE)
    /\ InitRouter
    /\ dm_initialized = FALSE
    /\ hpa_initialized = FALSE
    /\ InitCluster
    /\ registry = <<>>
    /\ deployed_tools = <<>>
    /\ orch = IdleOrch
    /\ named = Unnamed("calc", "weather")
    /\ \E m \in Modes : \E suffix \in ServiceSuffixes : \E up \in SUBSET Names :
           LET d == [NoDiscovery EXCEPT !.mode = m, !.service_suffix = suffix]
           IN  discovery = [d EXCEPT !.known = {HostOf(d, s) : s \in up}]
    /\ other = IdleOp

NextDiscovery ==
    \/ RegisterStatic \/ Discover \/ DiscoverResolve \/ DiscoverySwitch
    \/ DiscoverAll \/ DiscoverAllNext \/ DiscoveryReturn

SpecDiscovery == InitDiscovery /\ [][NextDiscovery]_vars

\* a ToolRegistry that tools are registered in, with any autoscaling section
NextPolicy == RegisterTool

SpecPolicy == InitBatch /\ [][NextPolicy]_vars

\* a KubernetesOrchestrator that deploys one tool while a second caller
\* deletes a deployment or an HPA once on the same control plane
NextOrchCallers ==
    \/ DeployTool \/ DeployPatch \/ DeployService \/ DeployStatus \/ DeployToolHpa
    \/ HpaPatch
    \/ DeployToolDone \/ Delete \/ DeleteService \/ DeleteHpa \/ Switch

\* the namespace may hold what an earlier deploy_tool of each tool left
InitOrchCallers ==
    /\ config = ConfigOf(BatchRetries, 1, 10 * Second, TRUE)
    /\ InitRouter
    /\ dm_initialized \in BOOLEAN
    /\ hpa_initialized \in BOOLEAN
    /\ registry \in Registries
    /\ \E present \in BOOLEAN :
           /\ deployments =
                  [n \in Names |->
                      IF present
                      THEN <<NewDeployment(DeploymentSpec(n, DefaultMinReplicas))>>
                      ELSE <<>>]
           /\ services =
                  [n \in Names |->
                      IF present
                      THEN <<ServiceOf(DeploymentSpec(n, DefaultMinReplicas))>>
                      ELSE <<>>]
           /\ hpas = [n \in Names |->
                         IF present
                         THEN <<HpaBody(HPASpec(n, DefaultMinReplicas,
                                                DefaultMaxReplicas,
                                                DefaultTargetCpuPercent, <<>>))>>
                         ELSE <<>>]
    /\ op = IdleOp
    /\ requested = [n \in Names |-> <<>>]
    /\ deployed_tools = <<>>
    /\ orch = IdleOrch
    /\ InitRest

SpecOrchCallers == InitOrchCallers /\ [][NextOrchCallers]_vars

\* ---- vocabulary of the properties -------------------------------------------
\* a transient failure: connection failure or timeout
IsTransientReply(r) == r.kind \in {"ConnectError", "Timeout"}

AllTransient(h) == \A j \in 1..Len(h) : IsTransientReply(h[j])

\* a successful response: 2xx, a well-formed body without an error
IsSuccessReply(r) ==
    r.kind = "Response" /\ r.status < 400 /\ r.parses /\ r.error = <<>>

IsClientErrorReply(r) == r.kind = "Response" /\ r.status >= 400 /\ r.status < 500

IsServerErrorReply(r) == r.kind = "Response" /\ r.status >= 500

IsAppErrorReply(r) ==
    r.kind = "Response" /\ r.status < 400 /\ r.parses /\ r.error # <<>>

EndsWith(str, suffix) ==
    /\ Len(str) >= Len(suffix)
    /\ SubSeq(str, Len(str) - Len(suffix) + 1, Len(str)) = suffix

StillTrying(c) == c.pc \in {"awaiting", "sleeping"}

\* the number of attempts in which the tool processed the request
RECURSIVE Processed(_)
Processed(h) ==
    IF h = <<>> THEN 0
    ELSE Processed(Tail(h))
         + (IF Head(h).kind = "Timeout" \/ IsSuccessReply(Head(h)) THEN 1 ELSE 0)

\* ---- C1 --------------------------------------------------------------------
\* C1: after k transient failures (connection failure or timeout) with
\* k < max_retries the invoke has not given up, and when the next reply is a
\* successful response the invoke returns that result, without error, after
\* exactly k + 1 POSTs.
C1_RetryThenSuccess ==
    \A i \in Slots :
        LET c == calls[i]
            h == c.history
            k == Len(h) - 1
        IN  /\ (h # <<>> /\ AllTransient(h) /\ Len(h) < config.max_retries)
                   => StillTrying(c)
            /\ (h # <<>> /\ IsSuccessReply(h[Len(h)])
                   /\ AllTransient(SubSeq(h, 1, k)) /\ k < config.max_retries)
                   => /\ c.pc = "returned"
                      /\ c.response = ToolInvokeResponse(h[Len(h)].result, <<>>)
                      /\ c.attempts = k + 1

C1_Witness ==
    \E i \in Slots :
        LET h == calls[i].history
        IN  /\ calls[i].pc = "returned"
            /\ Len(h) = 3
            /\ AllTransient(SubSeq(h, 1, 2))
            /\ IsSuccessReply(h[3])

\* ---- C2 --------------------------------------------------------------------
\* C2 as claimed: for every max_retries no invoke makes more than max_retries
\* POSTs, and when every attempt fails transiently the invoke returns a failed
\* response after exactly max_retries POSTs.
C2_ExactlyMaxRetriesAttempts ==
    \A i \in Slots :
        LET c == calls[i]
        IN  /\ c.attempts <= config.max_retries
            /\ (Finished(c) /\ c.history # <<>> /\ AllTransient(c.history))
                   => /\ c.pc = "returned"
                      /\ c.response.error # <<>>
                      /\ c.attempts = config.max_retries

\* C2 amended: the budget is max(1, max_retries) POSTs: never more, and
\* exactly that many, ending in a failed response, when every attempt fails
\* transiently (max_retries <= 0 still makes one attempt). The error of that
\* response is set, to the str of the last attempt's exception: the message
\* of a connection failure, the empty string for a read timeout.
C2_AttemptBudget ==
    \A i \in Slots :
        LET c == calls[i]
            budget == MaxOf(1, config.max_retries)
        IN  /\ c.attempts <= budget
            /\ (Finished(c) /\ c.history # <<>> /\ AllTransient(c.history))
                   => /\ c.pc = "returned"
                      /\ c.response.result = <<>>
                      /\ c.response.error # <<>>
                      /\ c.response.error[1] = c.history[Len(c.history)].text
                      /\ c.attempts = budget

C2_Witness ==
    \E i \in Slots :
        /\ calls[i].pc = "returned"
        /\ config.max_retries >= 2
        /\ Len(calls[i].history) = config.max_retries
        /\ AllTransient(calls[i].history)
        /\ calls[i].history[Len(calls[i].history)].kind = "Timeout"
        /\ calls[i].response.error = <<"">>

\* ---- C3 --------------------------------------------------------------------
\* C3: a response with status >= 500 is retried under the attempt budget like
\* a connection failure: while fewer than max_retries POSTs have been made, a
\* 5xx reply leaves the invoke trying.
C3_ServerErrorIsRetried ==
    \A i \in Slots :
        LET c == calls[i]
            h == c.history
        IN  (h # <<>> /\ IsServerErrorReply(h[Len(h)])
                /\ Len(h) < config.max_retries)
                => StillTrying(c)

\* ---- C4 --------------------------------------------------------------------
\* C4: a 4xx response, or a 2xx response whose body carries an application
\* error, is the last attempt of its invoke: the invoke returns at once a
\* failed response whose error carries the tool's own error text.
C4_NonTransientNotRetried ==
    \A i \in Slots :
        LET c == calls[i]
            h == c.history
        IN  \A j \in 1..Len(h) :
                /\ IsClientErrorReply(h[j])
                       => /\ j = Len(h) /\ c.attempts = j
                          /\ c.pc = "returned"
                          /\ c.response.result = <<>>
                          /\ c.response.error # <<>>
                          /\ EndsWith(c.response.error[1], h[j].text)
                /\ IsAppErrorReply(h[j])
                       => /\ j = Len(h) /\ c.attempts = j
                          /\ c.pc = "returned"
                          /\ c.response.error = h[j].error

C4_Witness ==
    \E i \in Slots :
        LET h == calls[i].history
        IN  /\ calls[i].pc = "returned"
            /\ Len(h) = 2
            /\ IsTransientReply(h[1])
            /\ IsClientErrorReply(h[2])

\* ---- C5 --------------------------------------------------------------------
\* C5: an invoke for a tool_id without a registered endpoint hands
\* its caller a failed response and sends no POST.
C5_UnregisteredReturnsResponse ==
    [][\A i \in Slots :
          (calls[i].pc = "free" /\ calls'[i].pc # "free"
              /\ service_urls[calls'[i].tool] = <<>>)
              => /\ calls'[i].pc = "returned"
                 /\ calls'[i].response.error # <<>>
                 /\ calls'[i].attempts = 0]_vars

\* ---- C6 --------------------------------------------------------------------
\* C6: whatever the tool answers (transient failures up to exhaustion, 5xx,
\* 4xx, application error, unparseable or malformed body), an invoke that has
\* sent its request ends by returning a response value, and that value carries
\* the error unless the last reply was a successful one; it never raises.
C6_InvokeNeverRaises ==
    \A i \in Slots :
        LET c == calls[i]
        IN  (Finished(c) /\ c.history # <<>>)
                => /\ c.pc = "returned"
                   /\ (~IsSuccessReply(c.history[Len(c.history)])
                          => c.response.error # <<>>)

\* ---- C7 --------------------------------------------------------------------
\* C7: an invoke_batch over n requests whose coroutines have all ended has
\* returned n responses, response i being the response of request i; a failure
\* of one request (unregistered tool included) leaves the others' successful
\* results in place.
C7_BatchReturnsAllResponses ==
    (batch.kind = "batch" /\ \A i \in 1..batch.n : Finished(calls[i]))
        => /\ batch.status = "returned"
           /\ Len(batch.result) = batch.n
           /\ \A i \in 1..batch.n :
                  /\ batch.result[i] = calls[i].response
                  /\ (calls[i].history # <<>>
                         /\ IsSuccessReply(calls[i].history[Len(calls[i].history)]))
                         => batch.result[i].error = <<>>

\* ---- C8 --------------------------------------------------------------------
\* C8: with the breaker enabled, an invoke that starts when its tool has
\* circuit_breaker_threshold consecutive transient failures behind it (no time
\* has passed since, so the cool-down has not elapsed) fails at once with a
\* breaker-open error response and sends no POST.
C8_BreakerShortCircuits ==
    [][\A i \in Slots :
          (calls[i].pc = "free" /\ calls'[i].pc # "free"
              /\ config.circuit_breaker_enabled
              /\ consec[calls'[i].tool] >= config.circuit_breaker_threshold)
              => /\ calls'[i].pc = "returned"
                 /\ calls'[i].response.error # <<>>
                 /\ calls'[i].attempts = 0]_vars

\* ---- C9 --------------------------------------------------------------------
\* C9 as claimed: within one invoke the tool processes the request at most
\* once, and no POST follows a successful attempt.
C9_ProcessedAtMostOnce ==
    \A i \in Slots :
        LET h == calls[i].history
        IN  /\ Processed(h) <= 1
            /\ \A j \in 1..Len(h) : IsSuccessReply(h[j]) => j = Len(h)

\* C9 amended: no POST follows an attempt whose response arrived (a successful
\* attempt is the last one), but an attempt that timed out after the tool
\* processed it is retried: the tool may process the request once per attempt,
\* at most max(1, max_retries) times; only the last of them can be a success.
C9_NoPostAfterSuccess ==
    \A i \in Slots :
        LET c == calls[i]
            h == c.history
        IN  /\ \A j \in 1..Len(h) :
                   IsSuccessReply(h[j])
                       => j = Len(h) /\ c.attempts = j /\ c.pc = "returned"
            /\ Processed(h) <= MaxOf(1, config.max_retries)
            /\ \A j \in 1..Len(h) :
                   j < Len(h) => (IsTransientReply(h[j]) /\ c.attempts > j)

C9_Witness ==
    \E i \in Slots :
        LET h == calls[i].history
        IN  /\ calls[i].pc = "returned"
            /\ Len(h) >= 2
            /\ h[1].kind = "Timeout"
            /\ IsSuccessReply(h[Len(h)])
            /\ Processed(h) >= 2

\* ---- C10 -------------------------------------------------------------------
\* C10 as claimed: the wait before retry k is
\* min(retry_max_wait, retry_min_wait * 2^(k-1)).
C10_BackoffFromMinWait ==
    \A i \in Slots :
        calls[i].pc = "sleeping"
            => calls[i].wait = MinOf(config.retry_max_wait,
                                     config.retry_min_wait
                                         * Pow2(calls[i].attempts - 1))

\* C10 amended: the backoff doubles from one second, not from retry_min_wait:
\* the wait before retry k is 2^(k-1) seconds when that lies between
\* retry_min_wait and retry_max_wait, retry_max_wait when 2^(k-1) seconds is
\* above it, and retry_min_wait whenever the result would be below
\* retry_min_wait (so it exceeds retry_max_wait only if retry_min_wait does).
C10_BackoffFromOneSecond ==
    \A i \in Slots :
        calls[i].pc = "sleeping"
            => LET k == calls[i].attempts
                   w == calls[i].wait
                   mn == config.retry_min_wait
                   mx == config.retry_max_wait
                   base == Second * Pow2(k - 1)
               IN  /\ w >= mn
                   /\ w <= MaxOf(mn, mx)
                   /\ (mn <= base /\ base <= mx) => w = base
                   /\ (base > mx /\ mx >= mn) => w = mx
                   /\ (base < mn \/ mx < mn) => w = mn

C10_Witness ==
    \E i \in Slots :
        /\ calls[i].pc = "sleeping"
        /\ calls[i].attempts = 2
        /\ config.retry_min_wait = 1
        /\ calls[i].wait = 2 * Second

\* ---- C11 -------------------------------------------------------------------
\* C11: a router shared by concurrent callers is race-free.  Under every
\* interleaving of invoke, invoke_batch, register_service, health_check and
\* close, an invoke is routed to the endpoint registered for its tool when it
\* started and keeps that URL, every outcome of its POSTs is an answer of the
\* tool server (never the failure of a connection that another caller's close
\* took away), and it never raises because the client it was handed is closed.
C11_InvokesUndisturbed ==
    [][\A i \in Slots :
          /\ calls'[i].exc # "RuntimeError"
          /\ \A j \in 1..Len(calls'[i].history) : calls'[i].history[j] \in Replies
          /\ (calls[i].pc = "free" /\ calls'[i].pc # "free"
                 /\ Truthy(service_urls[calls'[i].tool]))
                 => calls'[i].url
                        = RStripSlash(service_urls[calls'[i].tool][1]) \o "/invoke"
          /\ (calls[i].pc # "free" /\ calls'[i].pc # "free")
                 => calls'[i].url = calls[i].url]_vars

\* ---- C12 -------------------------------------------------------------------
\* C12: a resolved endpoint is never used once its TTL of 60 s has expired: no
\* POST is sent to the endpoint of a tool whose registration is older than
\* CacheTtl seconds.
C12_NoPostAfterTtl ==
    [][\A i \in Slots :
          (calls'[i].pc = "awaiting" /\ calls'[i].attempts > calls[i].attempts)
              => now - registered_at[calls'[i].tool] <= CacheTtl * Second]_vars

\* ---- C13 -------------------------------------------------------------------
\* C13: deploy is an idempotent create-or-update.  A deploy for a name that
\* already has a deployment patches it to the new spec (the control plane
\* then holds the new spec's replica count) and returns no error on account
\* of the existing deployment, and the status read afterwards reports the
\* second spec's replica count as desired_replicas.
C13_DeployCreateOrUpdate ==
    [][/\ (op.kind = "deploy" /\ op.pc = "patch" /\ op.fault = op'.fault)
              => /\ op'.pc = "service"
                 /\ deployments'[op.name] # <<>>
                 /\ deployments'[op.name][1].replicas = op.replicas
       /\ (op.kind = "deploy" /\ op.pc = "status" /\ op'.pc = "returned"
              /\ op.existed[1] /\ deployments[op.name] # <<>>)
              => /\ op'.status # <<>>
                 /\ (op'.status[1].error # <<>>
                        => op'.status[1].error[1] \in Faults \ {"None"})
                 /\ (op'.status[1].error = <<>>
                        => op'.status[1].desired_replicas = op.replicas)]_vars

\* ---- C14 -------------------------------------------------------------------
\* C14: whenever delete(name) has returned success, neither the deployment nor
\* its companion service named name exists on the control plane, whichever of
\* the two existed before.
C14_DeleteRemovesBoth ==
    (dm_initialized /\ op.kind = "delete" /\ op.pc = "returned" /\ op.ok)
        => deployments[op.name] = <<>> /\ services[op.name] = <<>>

\* ---- C15 -------------------------------------------------------------------
\* C15: a delete(name) that finds no deployment named name (the control plane
\* answers its call: 404) returns success; and since a delete that returned
\* success leaves no deployment behind, repeating it returns success again.
\* (A manager in dry-run mode asks nothing of the control plane.)
C15_DeleteAbsentSucceeds ==
    /\ (op.kind = "delete" /\ op.pc \in {"returned", "raised"}
           /\ ~op.existed[1] /\ op.fault = "None")
           => op.pc = "returned" /\ op.ok
    /\ (dm_initialized /\ op.kind = "delete" /\ op.pc = "returned" /\ op.ok)
           => deployments[op.name] = <<>>

C15_Witness ==
    /\ dm_initialized
    /\ op.kind = "delete" /\ op.pc = "returned" /\ op.ok
    /\ op.existed = <<FALSE, FALSE>> /\ op.fault = "None"

\* ---- C16 -------------------------------------------------------------------
\* the count the control plane reports, a missing one read as 0
Observed(opt) == IF Len(opt) = 0 THEN 0 ELSE opt[1]

\* status st reports what is observed of deployment d, and ready exactly when
\* the reported available count is at least the reported desired count
ReportsObserved(st, d) ==
    /\ st.available_replicas = Observed(d.available_replicas)
    /\ st.desired_replicas = Observed(d.status_replicas)
    /\ st.ready = (st.available_replicas >= st.desired_replicas)
    /\ st.error = <<>>

\* C16: every status that get_status or list_deployments returns for an
\* existing deployment carries the observed available and the observed desired
\* replica count (a missing count read as 0) and has ready = true exactly when
\* available >= desired.
C16_ReadyIffAvailableCoversDesired ==
    [][/\ (op.kind = "idle" /\ op'.kind = "get_status" /\ op'.pc = "returned"
              /\ dm_initialized /\ deployments[op'.name] # <<>>)
              => /\ op'.status # <<>>
                 /\ op'.status[1].name = op'.name
                 /\ ReportsObserved(op'.status[1], deployments[op'.name][1])
       /\ (op.kind = "idle" /\ op'.kind = "list_deployments")
              => \A st \in op'.statuses :
                     /\ deployments[st.name] # <<>>
                     /\ ReportsObserved(st, deployments[st.name][1])]_vars

C16_Witness ==
    /\ dm_initialized
    /\ op.kind = "get_status" /\ op.pc = "returned" /\ op.status # <<>>
    /\ deployments[op.name] # <<>>
    /\ deployments[op.name][1].available_replicas = <<>>
    /\ deployments[op.name][1].status_replicas = <<2>>
    /\ op.status[1].ready = FALSE
    /\ op.status[1].available_replicas = 0
    /\ op.status[1].desired_replicas = 2

\* ---- C17 -------------------------------------------------------------------
\* C17: in every mode of the manager, a get_status(name) that returns for a
\* name without a deployment returns None, never a populated DeploymentStatus.
C17_AbsentIsNotFound ==
    (op.kind = "get_status" /\ op.pc = "returned" /\ deployments[op.name] = <<>>)
        => op.status = <<>>

\* ---- C18 -------------------------------------------------------------------
\* the statuses an operation hands to its caller
StatusesOf(o) ==
    IF o.kind = "list_deployments" THEN o.statuses
    ELSE IF o.kind \in {"deploy", "get_status"} /\ o.status # <<>>
    THEN {o.status[1]}
    ELSE {}

\* the operation returns in this step
Returns == op.pc # "returned" /\ op'.pc = "returned"

\* status st is ready on the strength of an observation: the deployment is
\* on the control plane and st carries its observed counts, which are equal
ReadyAsObserved(st) ==
    /\ deployments[st.name] # <<>>
    /\ st.available_replicas = Observed(deployments[st.name][1].available_replicas)
    /\ st.desired_replicas = Observed(deployments[st.name][1].status_replicas)
    /\ st.available_replicas = st.desired_replicas

\* C18 as claimed: every status with ready = true that deploy, get_status or
\* list_deployments returns has available_replicas = desired_replicas, both
\* observed on the control plane; none is ready merely because the apply was
\* issued.
C18_ReadyOnlyAsObserved ==
    [][Returns => \A st \in StatusesOf(op') : st.ready => ReadyAsObserved(st)]_vars

\* C18 amended: that holds of a manager connected to the control plane (the
\* desired count being the observed status.replicas).  A manager in dry-run
\* mode returns ready = true without observing anything: deploy with
\* available = desired = spec.replicas, get_status with available = desired
\* = 1; there too a ready status has available_replicas = desired_replicas.
C18_ReadyAsObservedWhenConnected ==
    [][Returns =>
          \A st \in StatusesOf(op') :
              st.ready =>
                  /\ st.available_replicas = st.desired_replicas
                  /\ dm_initialized => ReadyAsObserved(st)
                  /\ ~dm_initialized =>
                         st.desired_replicas
                             = (IF op'.kind = "deploy" THEN op'.replicas ELSE 1)]_vars

C18_Witness ==
    /\ dm_initialized
    /\ op.kind = "deploy" /\ op.pc = "returned" /\ op.status # <<>>
    /\ op.status[1].ready
    /\ op.status[1].available_replicas = 2
    /\ op.status[1].desired_replicas = 2
    /\ deployments[op.name] # <<>>
    /\ deployments[op.name][1].available_replicas = <<2>>

\* ---- C19 -------------------------------------------------------------------
\* C19: a manager in dry-run mode makes no control-plane call and reports the
\* requested desired state as satisfied: deploy(spec) returns ready with
\* available = desired = spec.replicas; a later get_status(spec.name) reports
\* ready with the replica count last requested for that name (by deploy, or
\* by scale(name, r)); scale, delete, create_or_update_hpa and delete_hpa
\* return success.
C19_DryRunReportsRequestedState ==
    /\ [][(op' # op /\ op'.kind # "idle"
              /\ IF op'.kind \in {"create_or_update_hpa", "delete_hpa"}
                 THEN ~hpa_initialized ELSE ~dm_initialized)
             => UNCHANGED clusterVars]_vars
    /\ [](~dm_initialized =>
           /\ (op.kind = "deploy" /\ op.pc # "idle")
                  => /\ op.pc = "returned"
                     /\ op.status = <<DeploymentStatus(op.name, TRUE, op.replicas,
                                                       op.replicas, <<>>)>>
           /\ (op.kind = "get_status" /\ op.pc # "idle"
                  /\ requested[op.name] # <<>>)
                  => /\ op.pc = "returned"
                     /\ op.status = <<DeploymentStatus(op.name, TRUE,
                                          requested[op.name][1],
                                          requested[op.name][1], <<>>)>>
           /\ (op.kind \in {"scale", "delete"} /\ op.pc # "idle")
                  => op.pc = "returned" /\ op.ok)
    /\ []((~hpa_initialized
              /\ op.kind \in {"create_or_update_hpa", "delete_hpa"}
              /\ op.pc # "idle")
             => op.pc = "returned" /\ op.ok)

\* ---- C20 -------------------------------------------------------------------
\* the utilization target of HPA h for a resource: <<>> when h has no such
\* metric
TargetOf(h, resource) ==
    LET ms == {i \in 1..Len(h.metrics) : h.metrics[i].name = resource}
    IN  IF ms = {} THEN <<>>
        ELSE <<h.metrics[CHOOSE i \in ms : TRUE].average_utilization>>

\* HPA h is what spec asks for
HpaEquals(h, spec) ==
    /\ h.scale_target = spec.deployment_name
    /\ h.min_replicas = spec.min_replicas
    /\ h.max_replicas = spec.max_replicas
    /\ TargetOf(h, "cpu") = <<spec.target_cpu_percent>>
    /\ TargetOf(h, "memory") = spec.target_memory_percent
    /\ Len(h.metrics) = 1 + Len(spec.target_memory_percent)

\* C20: create_or_update_hpa is idempotent.  Whether or not an HPA of the
\* spec's name exists, an apply that the control plane answers returns
\* success (on the conflict it patches), and after every successful apply of
\* a connected manager the one HPA of that name has the min and max replicas
\* and the CPU and memory targets of the spec applied last.
C20_HpaCreateOrUpdate ==
    (op.kind = "create_or_update_hpa" /\ op.pc # "idle")
        => /\ op.pc \in {"patch", "returned"}
           /\ (op.pc = "returned" /\ op.fault = "None") => op.ok
           /\ (op.pc = "returned" /\ op.ok /\ hpa_initialized)
                  => /\ hpas[op.name] # <<>>
                     /\ HpaEquals(hpas[op.name][1], op.hspec[1])

C20_Witness ==
    /\ hpa_initialized
    /\ op.kind = "create_or_update_hpa" /\ op.pc = "returned" /\ op.ok
    /\ op.existed[1]
    /\ op.hspec[1].target_memory_percent = <<>>
    /\ op.hspec[1].max_replicas = 3
    /\ hpas[op.name] # <<>>
    /\ Len(hpas[op.name][1].metrics) = 1

\* ---- properties of the orchestrator -------------------------------------------
\* no orchestrator operation is under way
AtRest == orch.pc \in {"idle", "returned", "raised"}

\* initialize() has connected both managers of the orchestrator to the control
\* plane
Connected == dm_initialized /\ hpa_initialized

\* C21: after any sequence of deploy_tool, undeploy_tool, deploy_all_tools and
\* undeploy_all_tools, failures of the control plane included, no HPA exists
\* whose target deployment does not exist (checked for a connected orchestrator)
C21_NoOrphanHpa ==
    (AtRest /\ Connected) =>
        \A n \in Names :
            hpas[n] # <<>> => deployments[hpas[n][1].scale_target] # <<>>

\* the descriptor has an autoscaling policy that is not switched off; a policy
\* without an enabled flag, as AutoscalingConfig is, is a policy in force
PolicyEnabled(entry) ==
    /\ entry.autoscaling # <<>>
    /\ HasAttr(entry.autoscaling[1], "enabled") => entry.autoscaling[1].enabled

\* this step calls create_or_update_hpa
IssuesHpaApply == op'.kind = "create_or_update_hpa" /\ op.kind # op'.kind

\* a deploy_tool that found its descriptor is over
DeployToolOver ==
    /\ orch.kind = "deploy_tool" /\ orch.pc \in {"returned", "raised"}
    /\ orch.entry # <<>>

\* C22: in deploy_tool the HPA apply is never issued before the deployment
\* apply has returned, and an HPA apply is issued exactly when the
\* descriptor's autoscaling policy is enabled
C22_HpaAfterDeploymentIffEnabled ==
    /\ [][IssuesHpaApply => op.kind = "deploy" /\ op.pc = "returned"]_vars
    /\ [](DeployToolOver =>
             (orch.hpa_applied <=> PolicyEnabled(orch.entry[1])))

\* an HPA targets the deployment n
Targeted(n) == \E m \in Names : hpas[m] # <<>> /\ hpas[m][1].scale_target = n

\* C23: in undeploy_tool the HPA removal completes before the deployment
\* delete is issued: the deployment is never deleted while an HPA targeting
\* it still exists
C23_HpaGoneBeforeDeployment ==
    [][\A n \in Names :
          (orch'.pc = "deleting" /\ orch'.tool # ""
           /\ n = get_deployment_name(orch'.tool)
           /\ deployments[n] # <<>> /\ deployments'[n] = <<>>)
          => ~Targeted(n)]_vars

\* the registered tool_ids
Registered == {t \in Tools : EntryOf(registry, t) # <<>>}

\* C24: deploy_all_tools attempts every descriptor: the failure of a tool, an
\* error status or a raised exception, is recorded as that tool's error
\* result, the remaining tools are still attempted, and the mapping returned
\* has exactly one entry per registered tool_id
C24_DeployAllIsolatesFailures ==
    orch.kind = "deploy_all_tools" =>
        /\ orch.pc # "raised"
        /\ orch.pc = "returned" =>
              /\ orch.attempted = Registered
              /\ Len(orch.results) = Cardinality(Registered)
              /\ \A t \in Registered :
                    /\ HasKey(orch.results, t)
                    /\ create_deployment_spec(EntryOf(registry, t)[1]).exc # "None"
                       => LET st == ItemOf(orch.results, t)
                          IN  st # <<>> /\ ~st[1].ready /\ st[1].error # <<>>

\* deploy_all_tools returned the error result of the first tool, whose
\* deploy_tool raised, and the status of the second, which it has deployed
C24_Witness ==
    /\ orch.kind = "deploy_all_tools" /\ orch.pc = "returned"
    /\ Len(orch.results) = 2
    /\ orch.results[1].value # <<>> /\ orch.results[1].value[1].error # <<>>
    /\ orch.results[2].value # <<>> /\ orch.results[2].value[1].error = <<>>
    /\ deployments[get_deployment_name(orch.results[2].key)] # <<>>

\* C25: undeploy_all_tools is failure-isolated: the failure of undeploying one
\* tool, a false result or a raised exception, does not prevent the rest from
\* being attempted (checked for a connected orchestrator)
C25_UndeployAllIsolatesFailures ==
    (/\ Connected
     /\ orch.kind = "undeploy_all_tools" /\ orch.pc \in {"returned", "raised"})
        => orch.queue = <<>>

\* C26: after undeploy_all_tools, the CLI's undeploy, has completed, no
\* deployment, service or HPA of any registry tool remains, those of tools
\* deployed by an earlier orchestrator instance included (checked for a
\* connected orchestrator)
C26_UndeployAllLeavesNothing ==
    (Connected /\ orch.kind = "undeploy_all_tools" /\ orch.pc = "returned")
        => \A t \in Registered :
              /\ deployments[get_deployment_name(t)] = <<>>
              /\ services[get_service_name(t)] = <<>>
              /\ hpas[get_deployment_name(t)] = <<>>

\* ---- properties of the naming --------------------------------------------------
\* C27: the mapping from tool_id to resource name is deterministic and
\* injective: the same tool_id always yields the same name and two distinct
\* tool_ids never yield the same name
C27_NamingInjective ==
    named.names # <<>> =>
        /\ named.ids[1] = named.ids[2] => named.names[1] = named.names[2]
        /\ named.ids[1] # named.ids[2] => named.names[1] # named.names[2]

\* ---- properties of the derived specs -------------------------------------------
\* the CPU target of an autoscaling policy, under either name of the field
CpuTargetOf(policy) ==
    IF HasAttr(policy, "cpu_target") THEN policy.cpu_target
    ELSE policy.target_cpu_percent

\* a policy of the data model: 1 <= min, 1 <= max, 1 <= CPU target <= 100
ValidPolicy(policy) ==
    /\ policy.min_replicas >= 1 /\ policy.max_replicas >= 1
    /\ CpuTargetOf(policy) \in 1..100

\* C28: for a registry descriptor with tool_id calc and autoscaling min 1,
\* max 3, cpu target 50, deploy_tool('calc') applies a deployment named
\* tool-calc with 1 replica and an HPA targeting it with min_replicas 1,
\* max_replicas 3 and target CPU 50%; in general the replicas applied are the
\* descriptor's min replicas, and the HPA's bounds and CPU target the
\* descriptor's autoscaling values
C28_SpecsFollowDescriptor ==
    (DeployToolOver /\ PolicyEnabled(orch.entry[1])
     /\ ValidPolicy(orch.entry[1].autoscaling[1]))
        => LET policy == orch.entry[1].autoscaling[1]
               n == "tool-" \o orch.entry[1].tool_id
           IN  /\ orch.pc = "returned"
               /\ orch.dspec # <<>>
               /\ orch.dspec[1].name = n
               /\ orch.dspec[1].replicas = policy.min_replicas
               /\ orch.hspec = <<HPASpec(n, policy.min_replicas,
                                         policy.max_replicas,
                                         CpuTargetOf(policy), <<>>)>>

\* ---- properties of the discovery -----------------------------------------------
\* the ServiceDiscovery resolves names
ResolvesNames == discovery.mode \in {"kubernetes", "docker"}

\* the name service resolves the host name of the service
Resolves(service_name) ==
    gethostbyname(HostOf(discovery, service_name), discovery.known) = "resolved"

\* C29: on a name-resolution failure discover returns None in cluster-DNS mode
\* and an endpoint with healthy = false in compose-network mode; in neither
\* mode does a resolution failure raise to the caller, and no endpoint with
\* healthy = true is returned for a name that did not resolve
C29_ResolutionFailureIsAResult ==
    (discovery.kind = "discover" /\ discovery.pc # "resolving"
     /\ ResolvesNames /\ ~Resolves(discovery.tools[1].value))
        => /\ discovery.pc = "returned"
           /\ discovery.mode = "kubernetes" => discovery.value = <<>>
           /\ discovery.mode = "docker" =>
                 discovery.value # <<>> /\ ~discovery.value[1].healthy

\* C30: discover_all(tools) returns a mapping with exactly the keys of its
\* input, each key mapped to the endpoint discover returns for that tool and
\* to None for every tool that failed to resolve; the failure of one tool's
\* resolution does not prevent the results of the others from being returned
C30_DiscoverAllKeepsKeys ==
    (discovery.kind = "discover_all" /\ discovery.pc \in {"returned", "raised"})
        => /\ discovery.pc = "returned"
           /\ Keys(discovery.results) = Keys(discovery.tools)
           /\ \A i \in 1..Len(discovery.tools) :
                 LET item == discovery.tools[i]
                 IN  /\ discovery.results[i].value
                            = discover(discovery, item.key, item.value).value
                     /\ (ResolvesNames /\ ~Resolves(item.value))
                            => discovery.results[i].value = <<>>

\* ---- autoscaling policies and the HPAs made from them -----------------------------
\* the bounds of an autoscaling policy: 1 <= min <= max, 1 <= CPU target <= 100
WithinBounds(mn, mx, cpu) ==
    /\ 1 =< mn /\ mn =< mx
    /\ 1 =< cpu /\ cpu =< 100

\* C31: every autoscaling policy accepted into the registry, and every HPA on
\* the control plane, has 1 <= min_replicas <= max_replicas and a CPU target
\* between 1 and 100 percent
C31_PoliciesWithinBounds ==
    /\ \A t \in Tools :
          EntryOf(registry, t) # <<>> /\ HasAttr(EntryOf(registry, t)[1].autoscaling[1], "cpu_target") =>
              LET a == EntryOf(registry, t)[1].autoscaling[1]
              IN  WithinBounds(a.min_replicas, a.max_replicas, a.cpu_target)
    /\ \A n \in Names :
          hpas[n] # <<>> =>
              /\ TargetOf(hpas[n][1], "cpu") # <<>>
              /\ WithinBounds(hpas[n][1].min_replicas, hpas[n][1].max_replicas,
                              TargetOf(hpas[n][1], "cpu")[1])

\* the memory target an autoscaling policy sets, under either name of the field
MemoryTargetOf(policy) ==
    IF HasAttr(policy, "memory_target") THEN policy.memory_target
    ELSE policy.target_memory_percent

\* C32: the HPA applied for a tool has a CPU utilization metric, and a
\* memory utilization metric exactly when the tool's autoscaling policy sets a
\* memory target, with the policy's value (checked for a connected
\* orchestrator)
C32_MemoryMetricIffPolicySetsIt ==
    \A t \in Tools :
        (/\ Connected
         /\ EntryOf(registry, t) # <<>>
         /\ EntryOf(registry, t)[1].autoscaling # <<>>
         /\ hpas[get_deployment_name(t)] # <<>>)
            => LET h == hpas[get_deployment_name(t)][1]
               IN  /\ TargetOf(h, "cpu") # <<>>
                   /\ TargetOf(h, "memory")
                          = MemoryTargetOf(EntryOf(registry, t)[1].autoscaling[1])

\* ---- the companion service ------------------------------------------------------
\* the spec the deploy in progress was called with
SpecOfOp == [DeploymentSpec(op.name, op.replicas) EXCEPT !.labels = op.labels]

\* a deploy whose own control-plane calls were all answered has returned
DeployAnswered ==
    /\ dm_initialized
    /\ op.kind = "deploy" /\ op.pc = "returned" /\ op.fault = "None"

\* C33: when the service named spec.name exists, no step of deploy(spec)
\* changes it, and a deploy that meets no other failure returns a status
\* without error
C33_ExistingServiceUntouched ==
    /\ [][\A n \in Names :
             (op'.kind = "deploy" /\ op'.name = n /\ services[n] # <<>>)
                 => services'[n] = services[n]]_vars
    /\ [](DeployAnswered /\ op.existed[2]
             => op.status # <<>> /\ op.status[1].error = <<>>)

\* a deploy over a service with another selector than its spec's has
\* returned without error, and the service still has that selector
C33_Witness ==
    /\ DeployAnswered /\ op.existed[2]
    /\ services[op.name] # <<>>
    /\ services[op.name] # <<ServiceOf(SpecOfOp)>>
    /\ op.status[1].error = <<>>

\* ---- scale ----------------------------------------------------------------------
\* deployment d but for its desired replica count
ButReplicas(d) == [d EXCEPT !.replicas = 0]

\* C34: scale(name, replicas) changes nothing but the desired replica count
\* of deployment name: its labels and observed status, its service, its HPA
\* and every other deployment stay as they are; a connected manager whose
\* control-plane call fails, a missing deployment included, returns false and
\* changes nothing, and one whose call succeeds has set the count
C34_ScaleChangesReplicasOnly ==
    [][(op.kind = "idle" /\ op'.kind = "scale") =>
          LET n == op'.name
          IN  /\ services' = services
              /\ hpas' = hpas
              /\ \A m \in Names \ {n} : deployments'[m] = deployments[m]
              /\ (deployments[n] = <<>>) = (deployments'[n] = <<>>)
              /\ deployments[n] # <<>> =>
                     ButReplicas(deployments'[n][1]) = ButReplicas(deployments[n][1])
              /\ (dm_initialized /\ (op'.fault # "None" \/ deployments[n] = <<>>))
                     => ~op'.ok /\ deployments' = deployments
              /\ (dm_initialized /\ op'.ok)
                     => deployments'[n][1].replicas = op'.replicas]_vars

\* a scale of a labelled deployment with a service and an HPA has changed its
\* replica count
C34_Witness ==
    /\ dm_initialized
    /\ op.kind = "scale" /\ op.pc = "returned" /\ op.ok
    /\ deployments[op.name] # <<>>
    /\ deployments[op.name][1].labels # <<>>
    /\ deployments[op.name][1].replicas = op.replicas
    /\ requested[op.name] = <<op.replicas>>
    /\ services[op.name] # <<>>
    /\ hpas[op.name] # <<>>
    /\ \E m \in Names \ {op.name} : deployments[m] # <<>>

\* ---- the address of a tool's service --------------------------------------------
\* the cluster-internal address of the service named n
UrlOfName(n) == "http://" \o n \o "." \o OrchNamespace \o ".svc.cluster.local"

\* C35: get_service_url(id) is the address of the service named after id in
\* the configured namespace, whether the tool is deployed, not yet deployed
\* or undeployed, and the name in it is the name under which deploy_tool has
\* the deployment manager create the tool's service
C35_ServiceUrlStable ==
    /\ (orch.kind = "get_service_url" /\ orch.pc = "returned")
           => orch.url = UrlOfName("tool-" \o orch.tool)
    /\ (orch.pc = "deploying" /\ op.kind = "deploy")
           => get_service_url(orch.tool, OrchNamespace) = UrlOfName(op.name)

\* the address of a tool that is not tracked and has no service was returned
\* while the other tool is deployed
C35_Witness ==
    /\ dm_initialized
    /\ orch.kind = "get_service_url" /\ orch.pc = "returned"
    /\ orch.url = UrlOfName("tool-" \o orch.tool)
    /\ ~HasKey(deployed_tools, orch.tool)
    /\ services["tool-" \o orch.tool] = <<>>
    /\ \E t \in Tools \ {orch.tool} :
           HasKey(deployed_tools, t) /\ services["tool-" \o t] # <<>>

\* ---- termination of invoke ------------------------------------------------------
\* every invoke under way ends, by returning or by raising
InvokeEnds == \A i \in Slots : StillTrying(calls[i]) ~> Finished(calls[i])

\* C36: every invoke terminates: its attempts end, and after at most
\* max_retries attempts it returns a response to its caller
C36_InvokeReturnsWithinBudget ==
    /\ InvokeEnds
    /\ [](\A i \in Slots :
             /\ calls[i].attempts =< config.max_retries
             /\ Finished(calls[i]) => calls[i].pc = "returned")

\* ---- what a deploy without error leaves behind ------------------------------------
\* C37: when deploy(spec) of a connected manager has returned a status without
\* error, the deployment and the service named spec.name both exist
C37_DeployedMeansBothExist ==
    (/\ dm_initialized
     /\ op.kind = "deploy" /\ op.pc = "returned"
     /\ op.status # <<>> /\ op.status[1].error = <<>>)
        => /\ deployments[op.name] # <<>>
           /\ services[op.name] # <<>>

\* ---- two callers on one control plane ---------------------------------------------
\* C38: deploy returns a DeploymentStatus and never the not-found result,
\* also when another caller's delete of the same name takes effect between
\* its apply and its status read; so every value deploy_tool returns and
\* stores in _deployed_tools is a DeploymentStatus
C38_DeployReturnsAStatus ==
    /\ \A o \in {op, other} :
          (o.kind = "deploy" /\ o.pc = "returned") => o.status # NotFound(o.name)
    /\ (orch.kind = "deploy_tool" /\ orch.pc = "returned")
          => orch.status # NotFound(orch.tool)
    /\ \A i \in 1..Len(deployed_tools) :
          deployed_tools[i].value # NotFound(deployed_tools[i].key)

\* what of a spec named n the deployment d on the control plane carries
DeployedSpec(n, d) == [DeploymentSpec(n, d.replicas) EXCEPT !.labels = d.labels]

\* the two callers' deploys of one name have both returned, every
\* control-plane call of theirs answered
BothDeployed ==
    /\ dm_initialized
    /\ op.kind = "deploy" /\ op.pc = "returned" /\ op.fault = "None"
    /\ other.kind = "deploy" /\ other.pc = "returned" /\ other.fault = "None"
    /\ op.name = other.name

\* C39: two deploys of the same name by two callers both return without
\* error however their control-plane calls interleave; afterwards the
\* deployment and the service of that name exist, once each, and the
\* deployment is as the spec of one of the two calls asks
C39_ConcurrentDeploysConverge ==
    BothDeployed =>
        /\ \A o \in {op, other} : o.status # <<>> /\ o.status[1].error = <<>>
        /\ deployments[op.name] # <<>>
        /\ services[op.name] # <<>>
        /\ DeployedSpec(op.name, deployments[op.name][1])
               \in {SpecOf(op), SpecOf(other)}

\* C40: on one orchestrator connected to the control plane, between calls of
\* deploy_tool, undeploy_tool and undeploy_all_tools a tool_id is a key of
\* _deployed_tools exactly when the deployment of the tool exists
C40_TrackedIffDeployed ==
    (AtRest /\ dm_initialized) =>
        \A t \in Tools :
            HasKey(deployed_tools, t)
                <=> deployments[get_deployment_name(t)] # <<>>

====
